---- MODULE Spec2Model ----
(***************************************************************************)
(* A model of the pyctools runtime core:                                   *)
(*   - pyctools.core.objectpool.ObjectPool (weak-reference driven pool),   *)
(*   - a two-stage pipeline: a producer with an output frame pool feeding  *)
(*     pyctools.components.qt.qtdisplay.SimpleDisplay,                     *)
(*   - pyctools.core.config.ConfigMixin (get_config / set_config /         *)
(*     update_config) over a tree of validated leaf nodes.                 *)
(***************************************************************************)
EXTENDS Integers, Sequences, FiniteSets, TLC

(***************************************************************************)
(* Bounds of the model.                                                    *)
(***************************************************************************)
MaxSize == 2         \* pool capacities 1..MaxSize are explored
MaxReleases == 3     \* release notifications explored per behaviour
PipeSize == 2        \* capacity of the producer's output pool in the pipeline
NumFrames == 5       \* frames the producer sends in the pipeline
MaxQueue == 2        \* snapshots waiting in a component's config queue
MaxInt == 2          \* integers 0..MaxInt are offered to Int nodes
MaxSets == 2         \* set_config calls in a behaviour of the threaded model
MaxRuns == 2         \* run_graph calls in a behaviour
MaxStops == 2        \* stop() calls a SimpleDisplay receives
MaxShown == 2        \* frames QtDisplay passes to its display
MaxIcons == 3        \* component icons that exist at a time
MaxInputs == 2       \* frames that arrive at each input of YUVtoRGB
MaxEdits == 3        \* edits of the graph (links, deletions, config) in a behaviour
MaxLinks == 2        \* linkages of the compound component that is drawn
MaxPos == 1000       \* the relaxation loop is followed while positions are below this

\* the thread that constructs the pool (the producer's)
Owner == "producer"
\* the thread that runs SimpleDisplay (the Qt thread); the last holder of a
\* frame drops it there
Consumer == "display"
Threads == {Owner, Consumer}

VARIABLES
    \* ---- ObjectPool ----
    size,            \* the size argument of ObjectPool.__init__
    obj_list,        \* self.obj_list: weak references, named by their referent
    held,            \* objects some holder outside the pool strongly references
    made,            \* objects the factory has returned; they are 1..made
    factory_calls,   \* invocations of self.factory, raising ones included
    init_calls,      \* those of them made by __init__'s own loop
    called,          \* arguments of the invocations of self.callback, in order
    replaced,        \* those of them made by _release
    stack,           \* per thread: the pool frames it is executing
    released,        \* release notifications (weakref callbacks) begun
    surfaced,        \* factory exceptions that propagated to the caller of __init__
    ignored,         \* exceptions discarded at the weakref callback boundary
    init_state,      \* "running", "done" or "raised": the call of __init__
    retains,         \* the callback given to the pool: whether it can keep
                     \* a reference to its argument (TRUE), drop it (FALSE)
    \* ---- pipeline: producer and SimpleDisplay ----
    avail,           \* frames the callback handed to the producer, not yet used
    disp_msgs,       \* show_frame calls queued on the display's actor queue
    in_queue,        \* SimpleDisplay.in_queue
    swapping,        \* SimpleDisplay._swapping
    timer_active,    \* SimpleDisplay.timer is running (single shot)
    swaps_pending,   \* do_swap emitted, done_swap not yet delivered
    sent,            \* frames the producer has acquired and sent
    clock_started,   \* SimpleDisplay._next_frame_due has been initialised
    pop_errors,      \* display_frame calls that found in_queue empty
    received,        \* the frames show_frame was called with, in order
    displayed,       \* the frames display_frame has shown, in order
    \* ---- ConfigMixin ----
    heap,            \* the config trees that exist, by object identity
    config,          \* self.config: the identity of the live tree
    queue,           \* self._configmixin_queue: identities of the snapshots
    handle,          \* per caller: the tree it got from get_config, or 0
    op,              \* the operation performed last
    who,             \* the caller that performed it, or "component"
    ret,             \* what update_config returned, if it was performed last
    raised,          \* the operation performed last raised ValueError
    enq,             \* per queued snapshot: the caller's tree at set_config
    live_val,        \* the live tree as the last drain (or __init__) left it
    superseded,      \* the update_config just performed dropped a queued
                     \* snapshot that differs from the one it adopted
    no_set_since,    \* the component has called update_config, and
                     \* set_config was not called since
    \* ---- ConfigMixin, one step per bytecode that touches shared state ----
    cqueue,          \* self._configmixin_queue: snapshots by arrival number
    cconfig,         \* self.config: arrival number of the live tree, 0 for
                     \* the tree of __init__
    cpc,             \* per thread: where it is in update_config/get_config
    citem,           \* per thread: what its popleft() returned, not yet assigned
    nsets,           \* set_config calls made so far
    index_errors,    \* popleft() calls that raised IndexError
    cresult,         \* the local result of the component's update_config
    seen,            \* the live tree when the component's update_config
                     \* returned last
    reads,           \* the trees YUVtoRGB.transform read its config from,
                     \* in the call under way or just ended
    \* ---- one config leaf node ----
    leaf,            \* the node: its fields
    lop,             \* the method called last: "init", "set", "validate", "clip"
    larg,            \* the value it was called with
    lraised,         \* it raised ValueError
    lerr,            \* the text of that ValueError
    lvalid,          \* what validate returned, if it was called last
    lclipped,        \* what clip returned, if it was called last
    \* ---- one config tree, in the hands of one caller ----
    cnf,             \* the children of the root node, by key
    klass,           \* the children of the root of a new instance of the
                     \* component's class
    top,             \* the operation performed last
    targ,            \* what it was called with
    traised,         \* it raised KeyError or ValueError
    saved,           \* the config a save wrote, if it was performed last
    loaded,          \* the tree a load of it built
    \* ---- components at work: lifecycle and transform ----
    insts,           \* the QtDisplay instances the editor made, in order:
                     \* the state of each and of its SimpleDisplay, and how
                     \* often the shutdown actions of SimpleDisplay.onStop ran
                     \* and its stop() was called
    gen,             \* which of them is the icon's obj
    ylife,           \* the state of a YUVtoRGB component run by a script
    ypc,             \* where it is in process_frame
    y_in,            \* the frames it took: Y and UV
    buf_Y,           \* self.input_buffer['input_Y']: the frames waiting
    buf_UV,          \* self.input_buffer['input_UV']
    arrived,         \* frames that have arrived at each input so far
    steps,           \* calls of process_frame begun so far
    acquired,        \* output frames it took from its pool in this call
    outputs,         \* what it invoked its output port with in this call
    stops,           \* its own stop() requests in this call
    yresult,         \* what its transform returned in this call
    tkind,           \* the class whose transform was called last, or
                     \* "Matrix.matrix"
    tin,             \* the frame(s) it was called with
    tresult,         \* what it returned: "True", "False", or "raise"
    out_data,        \* it assigned out_frame.data
    last_frame_type, \* QtDisplay.last_frame_type
    shown,           \* calls of display.show_frame by QtDisplay.transform
    matrix_coefs,    \* Matrix.matrix_coefs: the columns of the matrix, if set
    \* ---- the editor's scene ----
    comps,           \* the component icons in the scene, by identity
    cname,           \* the name of each
    links,           \* the ComponentLinks in the scene
    sop,             \* the operation performed last
    sarg,            \* the component it was performed on, or 0
    removed,         \* the links it removed from the scene
    \* ---- the editor's graph and the component objects behind it ----
    gicons,          \* the enabled component icons in the scene
    glinks,          \* the ComponentLinks in the scene
    icon_obj,        \* per icon, its obj: the component it stands for
    bindings,        \* the bindings made on the objs of the icons: an
                     \* output of one component object to an input of another
    rg_pc,           \* where run_graph is: "idle" when it is not running
    rg_icons,        \* the icons its current loop has visited
    rg_links,        \* the links its current loop has visited
    runs,            \* calls of run_graph so far
    edits,           \* edits of the graph so far
    g_op,            \* the handler that ran last
    \* ---- CompoundIcon ----
    expanded,        \* self.expanded
    compound_linkages, \* self.obj._compound_linkages.items(), in dict order
    pos,             \* pos of draw_icon: child name -> <<x, y>>
    draw_pc,         \* "idle", or where draw_icon is: "loop", "drawn"
    icon_size        \* <<self.width, self.height>>

poolVars == <<size, obj_list, held, made, factory_calls, init_calls, called,
              replaced, stack, released, surfaced, ignored, init_state,
              retains>>
pipeVars == <<avail, disp_msgs, in_queue, swapping, timer_active,
              swaps_pending, sent, clock_started, pop_errors, received, displayed>>
mixinVars == <<heap, config, queue, handle, op, who, ret, raised, enq,
               live_val, superseded, no_set_since>>
concVars == <<cqueue, cconfig, cpc, citem, nsets, index_errors, cresult, seen,
              reads>>
leafVars == <<leaf, lop, larg, lraised, lerr, lvalid, lclipped>>
cfgVars == <<mixinVars, concVars, leafVars>>
treeVars == <<cnf, klass, top, targ, traised, saved, loaded>>
lifeVars == <<insts, gen, ylife>>
inVars == <<buf_Y, buf_UV, arrived, steps>>
stepVars == <<ypc, y_in, acquired, outputs, stops, yresult, inVars>>
transVars == <<tkind, tin, tresult, out_data, last_frame_type, shown,
               matrix_coefs>>
compVars == <<lifeVars, stepVars, transVars>>
graphVars == <<gicons, glinks, icon_obj, bindings, rg_pc, rg_icons, rg_links,
               runs, edits, g_op>>
drawVars == <<expanded, compound_linkages, pos, draw_pc, icon_size>>
sceneVars == <<comps, cname, links, sop, sarg, removed, graphVars, drawVars>>
appVars == <<treeVars, compVars, sceneVars>>
vars == <<poolVars, pipeVars, cfgVars, appVars>>

(***************************************************************************)
(* ObjectPool                                                              *)
(***************************************************************************)
Top(t) == stack[t][Len(stack[t])]
SetTop(t, f) == [stack EXCEPT ![t] = [@ EXCEPT ![Len(@)] = f]]
Pop(t) == [stack EXCEPT ![t] = SubSeq(@, 1, Len(@) - 1)]
Push(st, t, f) == [st EXCEPT ![t] = Append(@, f)]

Running(t, fns, pc) ==
    /\ stack[t] # <<>>
    /\ Top(t).fn \in fns
    /\ Top(t).pc = pc

InitFrame == [fn |-> "init", pc |-> "loop", i |-> 0, ref |-> 0, obj |-> 0]
ReleaseFrame(o) == [fn |-> "release", pc |-> "remove", i |-> 0, ref |-> o, obj |-> 0]

Elems(s) == {s[k] : k \in 1 .. Len(s)}

\* list.remove(x): the list without the first element equal to x
RECURSIVE ListRemove(_, _)
ListRemove(s, x) ==
    IF s = <<>> THEN <<>>
    ELSE IF Head(s) = x THEN Tail(s)
    ELSE <<Head(s)>> \o ListRemove(Tail(s), x)

\* objects referenced by the local variable obj of a running _new_object
Locals ==
    UNION {{stack[t][k].obj : k \in 1 .. Len(stack[t])} : t \in Threads} \ {0}

\* objects with at least one strong reference: live, not yet released
Live == held \cup Locals

\* for i in range(size)
LoopTestOffByOne(i, n) == i <= n
LoopTest(i, n) == i < n

\* __init__: one test of the for loop; either call _new_object or return
InitLoop(t) ==
    /\ Running(t, {"init"}, "loop")
    /\ IF LoopTest(Top(t).i, size)
       THEN /\ stack' = SetTop(t, [Top(t) EXCEPT !.pc = "factory"])
            /\ init_state' = init_state
       ELSE /\ stack' = Pop(t)
            /\ init_state' = "done"
    /\ UNCHANGED <<retains, size, obj_list, held, made, factory_calls, init_calls,
                   called, replaced, released, surfaced, ignored, pipeVars, cfgVars, appVars>>

\* _release: self.obj_list.remove(obj); a missing reference raises ValueError,
\* which the weakref machinery reports on stderr and discards
RemoveRefKeeps(list, ref) == list
RemoveRef(list, ref) == ListRemove(list, ref)

Remove(t) ==
    /\ Running(t, {"release"}, "remove")
    /\ IF Top(t).ref \in Elems(obj_list)
       THEN /\ obj_list' = RemoveRef(obj_list, Top(t).ref)
            /\ stack' = SetTop(t, [Top(t) EXCEPT !.pc = "factory"])
            /\ ignored' = ignored
       ELSE /\ obj_list' = obj_list
            /\ stack' = Pop(t)
            /\ ignored' = ignored + 1
    /\ UNCHANGED <<retains, size, held, made, factory_calls, init_calls, called, replaced,
                   released, surfaced, init_state, pipeVars, cfgVars, appVars>>

\* _new_object: obj = self.factory(), the factory returning a new object
FactoryReturns(t) ==
    /\ Running(t, {"init", "release"}, "factory")
    /\ made' = made + 1
    /\ factory_calls' = factory_calls + 1
    /\ init_calls' = IF Top(t).fn = "init" THEN init_calls + 1 ELSE init_calls
    /\ stack' = SetTop(t, [Top(t) EXCEPT !.pc = "append", !.obj = made + 1])
    /\ UNCHANGED <<retains, size, obj_list, held, called, replaced, released, surfaced, ignored,
                   init_state, pipeVars, cfgVars, appVars>>

\* where an exception raised below frame f ends: __init__ has no handler, so
\* its caller gets it; _release runs as a weakref callback, whose exceptions
\* are printed and discarded by the interpreter
Propagates(f) == f.fn = "init"

\* _new_object: obj = self.factory(), the factory raising
FactoryRaises(t) ==
    /\ Running(t, {"init", "release"}, "factory")
    /\ factory_calls' = factory_calls + 1
    /\ init_calls' = IF Top(t).fn = "init" THEN init_calls + 1 ELSE init_calls
    /\ stack' = Pop(t)
    /\ IF Propagates(Top(t))
       THEN /\ surfaced' = surfaced + 1
            /\ ignored' = ignored
            /\ init_state' = "raised"
       ELSE /\ surfaced' = surfaced
            /\ ignored' = ignored + 1
            /\ init_state' = init_state
    /\ UNCHANGED <<retains, size, obj_list, held, made, called, replaced, released,
                   pipeVars, cfgVars, appVars>>

\* _new_object: self.obj_list.append(weakref.ref(obj, self._release))
AppendRef(t) ==
    /\ Running(t, {"init", "release"}, "append")
    /\ obj_list' = Append(obj_list, Top(t).obj)
    /\ stack' = SetTop(t, [Top(t) EXCEPT !.pc = "callback"])
    /\ UNCHANGED <<retains, size, held, made, factory_calls, init_calls, called, replaced,
                   released, surfaced, ignored, init_state, pipeVars, cfgVars, appVars>>

\* _new_object: self.callback(obj); the callback keeps a reference or not
CallbackTwice(list, obj) == list \o <<obj, obj>>
CallbackArgs(list, obj) == Append(list, obj)

CallbackCore(t, retain) ==
    /\ Running(t, {"init", "release"}, "callback")
    /\ called' = CallbackArgs(called, Top(t).obj)
    /\ replaced' = IF Top(t).fn = "release" THEN replaced + 1 ELSE replaced
    /\ held' = IF retain THEN held \cup {Top(t).obj} ELSE held
    /\ stack' = SetTop(t, [Top(t) EXCEPT !.pc = "ret"])
    /\ UNCHANGED <<retains, size, obj_list, made, factory_calls, init_calls, released,
                   surfaced, ignored, init_state>>

Callback(t) ==
    /\ \E retain \in (IF released < MaxReleases THEN retains
                        ELSE retains \cap {TRUE}) :
           CallbackCore(t, retain)
    /\ UNCHANGED <<pipeVars, cfgVars, appVars>>

\* the frame that called _new_object, after the call returned: __init__
\* goes round its loop, _release has nothing left to do
AfterCallRepeats(f) ==
    IF f.fn = "init" THEN <<[f EXCEPT !.pc = "loop", !.i = f.i + 1, !.obj = 0]>>
    ELSE IF f.i = 0 THEN <<[f EXCEPT !.pc = "factory", !.i = 1, !.obj = 0]>>
    ELSE <<>>
AfterCall(f) ==
    IF f.fn = "init" THEN <<[f EXCEPT !.pc = "loop", !.i = f.i + 1, !.obj = 0]>>
    ELSE <<>>

\* _new_object returns: its local obj goes away. An object nobody else
\* references dies here, and its weak reference calls _release at once, in
\* this thread, before the caller goes on.
Return(t) ==
    /\ Running(t, {"init", "release"}, "ret")
    /\ LET f == Top(t)
           below == SubSeq(stack[t], 1, Len(stack[t]) - 1) \o AfterCall(f)
       IN  IF f.obj \in held
           THEN /\ stack' = [stack EXCEPT ![t] = below]
                /\ released' = released
           ELSE /\ stack' = [stack EXCEPT ![t] = Append(below, ReleaseFrame(f.obj))]
                /\ released' = released + 1
    /\ UNCHANGED <<retains, size, obj_list, held, made, factory_calls, init_calls,
                   called, replaced, surfaced, ignored, init_state, pipeVars, cfgVars, appVars>>

\* the last holder of object o outside the pool drops it, in thread t. If a
\* running _new_object still references o, o lives on until that call returns
\* (Return); otherwise o dies here and its weak reference's callback,
\* self._release, starts in thread t.
StartRelease(t, o) ==
    /\ held' = held \ {o}
    /\ IF o \in Locals
       THEN /\ stack' = stack
            /\ released' = released
       ELSE /\ stack' = Push(stack, t, ReleaseFrame(o))
            /\ released' = released + 1

Drop(t, o) ==
    /\ stack[t] = <<>>
    /\ o \in held
    /\ released < MaxReleases
    /\ StartRelease(t, o)
    /\ UNCHANGED <<retains, size, obj_list, made, factory_calls, init_calls, called, replaced,
                   surfaced, ignored, init_state, pipeVars, cfgVars, appVars>>

(***************************************************************************)
(* A two-stage pipeline: a producer whose output frames come from an       *)
(* ObjectPool of PipeSize frames, and SimpleDisplay as the consumer.       *)
(***************************************************************************)

\* the pool's callback in a component: the new frame becomes available to
\* the component's processing step
CallbackToProducer(t) ==
    /\ CallbackCore(t, TRUE)
    /\ avail' = Append(avail, Top(t).obj)
    /\ UNCHANGED <<disp_msgs, in_queue, swapping, timer_active, swaps_pending,
                   sent, clock_started, pop_errors, received, displayed,
                   cfgVars, appVars>>

\* process_frame: take an output frame from the pool's queue (waiting while
\* there is none) and send it on; the consumer's show_frame is an actor
\* method, so the call is queued on the display
ProcessFrame ==
    /\ stack[Owner] = <<>>
    /\ avail # <<>>
    /\ sent < NumFrames
    /\ avail' = Tail(avail)
    /\ disp_msgs' = Append(disp_msgs, Head(avail))
    /\ sent' = sent + 1
    /\ UNCHANGED <<poolVars, in_queue, swapping, timer_active, swaps_pending,
                   clock_started, pop_errors, received, displayed,
                   cfgVars, appVars>>

\* deque.popleft() and deque.pop() on a queue that is not empty: the item
\* returned and what is left
pop(q) == [item |-> q[Len(q)], rest |-> SubSeq(q, 1, Len(q) - 1)]
popleft(q) == [item |-> Head(q), rest |-> Tail(q)]

\* SimpleDisplay.display_frame on queue q: popleft, _swapping = True,
\* do_swap.emit(); the frame popped is referenced by nothing else when the
\* handler returns. Popping an empty deque raises IndexError.
DisplayFrame(q) ==
    IF q = <<>>
    THEN /\ in_queue' = q
         /\ pop_errors' = pop_errors + 1
         /\ UNCHANGED <<swapping, swaps_pending, displayed, held, stack,
                        released>>
    ELSE /\ in_queue' = popleft(q).rest
         /\ displayed' = Append(displayed, popleft(q).item)
         /\ swapping' = TRUE
         /\ swaps_pending' = swaps_pending + 1
         /\ pop_errors' = pop_errors
         /\ StartRelease(Consumer, popleft(q).item)

\* an event handler of the display leaves the frame queued
KeepQueued(q) ==
    /\ in_queue' = q
    /\ UNCHANGED <<swaps_pending, pop_errors, displayed, held, stack,
                   released>>

\* self.timer.start(int(sleep * 1000.0)): the single-shot timer is pending
\* afterwards
TimerNotStarted == FALSE
TimerStarted == TRUE

\* show_frame: if self._swapping or len(self.in_queue) > 1
NoNeedUnlessQueued(busy, q) == Len(q) > 1
NoNeedToSetTimer(busy, q) == busy \/ Len(q) > 1

\* SimpleDisplay.show_frame(frame, image); later stands for
\* self._next_frame_due > now + self._display_period
ShowFrame ==
    /\ stack[Consumer] = <<>>
    /\ disp_msgs # <<>>
    /\ disp_msgs' = Tail(disp_msgs)
    /\ received' = Append(received, Head(disp_msgs))
    /\ LET q == Append(in_queue, Head(disp_msgs))
       IN  IF NoNeedToSetTimer(swapping, q)
           THEN /\ KeepQueued(q)
                /\ UNCHANGED <<swapping, timer_active, clock_started>>
           ELSE /\ clock_started' = TRUE
                /\ \E later \in (IF clock_started THEN BOOLEAN ELSE {FALSE}) :
                       IF later
                       THEN /\ timer_active' = TimerStarted
                            /\ swapping' = swapping
                            /\ KeepQueued(q)
                       ELSE /\ timer_active' = timer_active
                            /\ DisplayFrame(q)
    /\ UNCHANGED <<retains, size, obj_list, made, factory_calls, init_calls, called, replaced,
                   surfaced, ignored, init_state, avail, sent, cfgVars, appVars>>

\* timer.timeout is connected to display_frame
TimerTimeout ==
    /\ stack[Consumer] = <<>>
    /\ timer_active
    /\ timer_active' = FALSE
    /\ DisplayFrame(in_queue)
    /\ UNCHANGED <<retains, size, obj_list, made, factory_calls, init_calls, called, replaced,
                   surfaced, ignored, init_state, avail, disp_msgs, sent,
                   clock_started, received, cfgVars, appVars>>

\* SimpleDisplay.done_swap(now), the slot of BufferSwapper.done_swap; later
\* stands for self._next_frame_due > self._display_clock + self._display_period
DoneSwap ==
    /\ stack[Consumer] = <<>>
    /\ swaps_pending > 0
    /\ IF in_queue = <<>>
       THEN /\ swapping' = FALSE
            /\ timer_active' = FALSE
            /\ swaps_pending' = swaps_pending - 1
            /\ UNCHANGED <<in_queue, pop_errors, displayed, held, stack,
                           released>>
       ELSE \E later \in BOOLEAN :
                IF later
                THEN /\ swapping' = FALSE
                     /\ timer_active' = TimerStarted
                     /\ swaps_pending' = swaps_pending - 1
                     /\ UNCHANGED <<in_queue, pop_errors, displayed, held,
                                    stack, released>>
                ELSE /\ timer_active' = FALSE
                     /\ in_queue' = popleft(in_queue).rest
                     /\ displayed' = Append(displayed, popleft(in_queue).item)
                     /\ swapping' = TRUE
                     /\ swaps_pending' = swaps_pending
                     /\ pop_errors' = pop_errors
                     /\ StartRelease(Consumer, popleft(in_queue).item)
    /\ UNCHANGED <<retains, size, obj_list, made, factory_calls, init_calls, called, replaced,
                   surfaced, ignored, init_state, avail, disp_msgs, sent,
                   clock_started, received, cfgVars, appVars>>

\* frames the producer acquired that their last holder has not released
InFlight == Elems(disp_msgs) \cup Elems(in_queue)


(***************************************************************************)
(* Config leaf nodes and trees                                             *)
(***************************************************************************)
None == <<>>                       \* Python's None, for an optional field
Some(v) == <<v>>
IntVal(n) == [t |-> "int", v |-> n]     \* a Python int
StrVal(x) == [t |-> "str", v |-> x]     \* a Python str
FloatVal(n) == [t |-> "float", v |-> n] \* a Python float, here a whole one
NoneVal == [t |-> "none", v |-> 0]      \* None, passed as a value

Min(a, b) == IF a <= b THEN a ELSE b
Max(a, b) == IF a >= b THEN a ELSE b

\* ConfigLeafNode.clip: the maximum is applied first, the minimum last
ClipMinFirst(node, value) ==
    LET v1 == IF node.min_value # None THEN Max(value, node.min_value[1])
              ELSE value
    IN  IF node.max_value # None THEN Min(v1, node.max_value[1]) ELSE v1
ClipIgnoresMin(node, value) ==
    IF node.max_value # None THEN Min(value, node.max_value[1]) ELSE value
clip(node, value) ==
    LET v1 == IF node.max_value # None THEN Min(value, node.max_value[1])
              ELSE value
    IN  IF node.min_value # None THEN Max(v1, node.min_value[1]) ELSE v1

\* ConfigInt(value=..., min_value=..., max_value=...)
ConfigInt(value, min_value, max_value) ==
    LET node == [type |-> "int", value |-> 0, default |-> 0,
                 min_value |-> min_value, max_value |-> max_value]
        v == IF value = None THEN clip(node, 0) ELSE value[1]
    IN  [node EXCEPT !.value = v, !.default = v]

\* ConfigEnum(choices, extendable=...)
ConfigEnum(choices, extendable) ==
    [type |-> "enum", value |-> choices[1], default |-> choices[1],
     choices |-> choices, extendable |-> extendable]

\* value in self.choices
AnyString(val, choices) == val.t = "str"
InChoices(val, choices) == val.t = "str" /\ val.v \in Elems(choices)

\* self.clip(value) == value
InRangeAlways(node, val) == TRUE
InRange(node, val) == clip(node, val.v) = val.v

\* self.extendable and value not in self.choices
NeedsAppendAlways(node, val) == node.extendable
NeedsAppend(node, val) == node.extendable /\ ~InChoices(val, node.choices)

\* ConfigFloat(value=..., min_value=..., max_value=...); the bounds are
\* floats
ConfigFloat(value, min_value, max_value) ==
    LET node == [type |-> "float", value |-> 0, default |-> 0,
                 min_value |-> min_value, max_value |-> max_value]
        v == IF value = None THEN clip(node, 0) ELSE value[1]
    IN  [node EXCEPT !.value = v, !.default = v]

\* ConfigStr(value=...) and ConfigPath(value=...): the value of a string
\* node is None or Some(a string)
ConfigStr(value) == [type |-> "str", value |-> value, default |-> value]
ConfigPath(value) == [type |-> "path", value |-> value, default |-> value]

\* validate(value): the verdict, and the node as validate leaves it (an
\* extendable ConfigEnum appends an unknown value to its choices)
validate(node, val) ==
    IF node.type \in {"int", "float"}
    THEN [ok |-> val.t = node.type /\ InRange(node, val), node |-> node]
    ELSE IF node.type \in {"str", "path"}
    THEN [ok |-> val.t = "str", node |-> node]
    ELSE LET n2 == IF NeedsAppend(node, val)
                   THEN [node EXCEPT !.choices = Append(@, val.v)]
                   ELSE node
         IN  [ok |-> InChoices(val, n2.choices), node |-> n2]

\* self.value = value, in the form the node keeps it
Stored(node, val) ==
    IF node.type \in {"str", "path"} THEN Some(val.v) ELSE val.v

\* ConfigLeafNode.set(value): raise ValueError unless validate(value)
LeafSet(node, val) ==
    LET r == validate(node, val)
    IN  IF ~r.ok THEN [raised |-> TRUE, node |-> r.node]
        ELSE [raised |-> FALSE,
              node |-> [r.node EXCEPT !.value = Stored(node, val)]]

\* ConfigLeafNode.get(): return self.value
LeafGet(node) ==
    IF node.type = "int" THEN IntVal(node.value)
    ELSE IF node.type = "float" THEN FloatVal(node.value)
    ELSE IF node.type = "enum" THEN StrVal(node.value)
    ELSE IF node.value = None THEN NoneVal
    ELSE StrVal(node.value[1])

\* ConfigParent.__setitem__(key, value) with a plain value:
\* self.value[key].set(value)
ParentSetItem(tree, key, val) ==
    LET r == LeafSet(tree[key], val)
    IN  [raised |-> r.raised, tree |-> [tree EXCEPT ![key] = r.node]]

\* the config tree of QtDisplay.initialise, two of its nodes:
\* shrink = ConfigInt(min_value=1), stats = ConfigEnum(('off', 'on'))
InitialTree ==
    [k \in {"shrink", "stats"} |->
        IF k = "shrink" THEN ConfigInt(None, Some(1), None)
        ELSE ConfigEnum(<<"off", "on">>, FALSE)]

Keys == DOMAIN InitialTree

\* the config tree of a component that reads a file: path = ConfigPath(),
\* which has no value until the user chooses a file (the editor's
\* ConfigPathWidget shows such a node as '')
ReaderTree == [k \in {"path"} |-> ConfigPath(None)]

\* the trees a component may start with
ComponentTrees == {InitialTree, ReaderTree}
AllKeys == UNION {DOMAIN tree : tree \in ComponentTrees}

\* every leaf of the tree satisfies its own validation predicate
AllValid(tree) ==
    \A k \in DOMAIN tree : validate(tree[k], LeafGet(tree[k])).ok

\* what a caller may try to store in a node
Values ==
    {IntVal(n) : n \in 0 .. MaxInt} \cup {StrVal(x) : x \in {"off", "on", "maybe"}}

(***************************************************************************)
(* ConfigMixin. Trees are objects: heap maps the identity of every tree    *)
(* that is still referenced to its contents.                               *)
(***************************************************************************)
\* the external caller of get_config and set_config: a ConfigDialog of the
\* editor
CallerSeq == <<"dialog">>
Callers == Elems(CallerSeq)

\* the identity of a newly created object
Fresh(h) ==
    CHOOSE a \in 1 .. Cardinality(DOMAIN h) + 1 :
        a \notin DOMAIN h /\ \A b \in 1 .. a - 1 : b \in DOMAIN h

\* copy.deepcopy(x): a new object with the contents of x
deepcopy(h, a) == [heap |-> (Fresh(h) :> h[a]) @@ h, addr |-> Fresh(h)]

\* the component and its callers' references
CompState ==
    [heap |-> heap, config |-> config, queue |-> queue, handle |-> handle]

\* the references to trees, in a fixed order
Roots(st) ==
    <<st.config>> \o st.queue \o [k \in 1 .. Len(CallerSeq) |-> st.handle[CallerSeq[k]]]

\* Objects nothing references any more cease to exist. Which identity an
\* object has is immaterial: the ones left are renamed by their place in
\* Roots.
Collect(st) ==
    LET roots == Roots(st)
        name(a) == IF a = 0 THEN 0
                   ELSE CHOOSE k \in 1 .. Len(roots) :
                            roots[k] = a /\ \A j \in 1 .. k - 1 : roots[j] # a
        old(n) == roots[n]
    IN  [heap |-> [n \in {name(a) : a \in Elems(roots) \ {0}} |-> st.heap[old(n)]],
         config |-> name(st.config),
         queue |-> [k \in 1 .. Len(st.queue) |-> name(st.queue[k])],
         handle |-> [c \in Callers |-> name(st.handle[c])]]

\* update_config: while self._configmixin_queue:
\*                    self.config = self._configmixin_queue.popleft()
\*                    result = True
UpdateLoopAdoptsFirst(cfg, q, result) ==
    IF q # <<>> THEN [config |-> Head(q), queue |-> <<>>, result |-> TRUE]
    ELSE [config |-> cfg, queue |-> q, result |-> result]
UpdateLoopKeepsQueue(cfg, q, result) ==
    IF q # <<>> THEN [config |-> q[Len(q)], queue |-> q, result |-> TRUE]
    ELSE [config |-> cfg, queue |-> q, result |-> result]
RECURSIVE UpdateLoop(_, _, _)
UpdateLoop(cfg, q, result) ==
    IF q # <<>> THEN UpdateLoop(Head(q), Tail(q), TRUE)
    ELSE [config |-> cfg, queue |-> q, result |-> result]

update_config(st) ==
    LET r == UpdateLoop(st.config, st.queue, FALSE)
    IN  [st |-> Collect([st EXCEPT !.config = r.config, !.queue = r.queue]),
         result |-> r.result]

\* get_config: return copy.deepcopy(self.config)
GetConfigAlias(h, a) == [heap |-> h, addr |-> a]
GetConfigCopy(h, a) == deepcopy(h, a)

\* get_config, called by c, which keeps the tree returned
get_config(st, c) ==
    LET st1 == update_config(st).st
        cp == GetConfigCopy(st1.heap, st1.config)
    IN  Collect([st1 EXCEPT !.heap = cp.heap, !.handle[c] = cp.addr])

\* set_config: self._configmixin_queue.append(copy.deepcopy(config))
SetConfigAlias(h, a) == [heap |-> h, addr |-> a]
SetConfigCopy(h, a) == deepcopy(h, a)

\* set_config(config), called by c with the tree it holds
set_config(st, c) ==
    LET cp == SetConfigCopy(st.heap, st.handle[c])
    IN  Collect([st EXCEPT !.heap = cp.heap, !.queue = Append(st.queue, cp.addr)])

Install(st) ==
    /\ heap' = st.heap
    /\ config' = st.config
    /\ queue' = st.queue
    /\ handle' = st.handle

\* the component calls update_config
UpdateConfig ==
    /\ LET r == update_config(CompState)
       IN  Install(r.st) /\ ret' = r.result
    /\ op' = "update_config" /\ who' = "component" /\ raised' = FALSE
    /\ superseded' = (\E k \in 1 .. Len(enq) : enq[k] # enq[Len(enq)])
    /\ enq' = <<>>
    /\ live_val' = heap'[config']
    /\ no_set_since' = TRUE
    /\ UNCHANGED <<poolVars, pipeVars, concVars, leafVars, appVars>>

\* caller c calls get_config and keeps the result
GetConfig(c) ==
    /\ Install(get_config(CompState, c))
    /\ op' = "get_config" /\ who' = c /\ raised' = FALSE
    /\ superseded' = FALSE
    /\ enq' = <<>>
    /\ live_val' = heap'[config']
    /\ ret' = FALSE
    /\ UNCHANGED <<no_set_since, poolVars, pipeVars, concVars, leafVars, appVars>>

\* caller c stores val under key in the tree it holds: cfg[key] = val
Edit(c, key, val) ==
    /\ handle[c] # 0
    /\ key \in DOMAIN heap[handle[c]]
    /\ LET r == ParentSetItem(heap[handle[c]], key, val)
       IN  /\ heap' = [heap EXCEPT ![handle[c]] = r.tree]
           /\ raised' = r.raised
    /\ op' = "edit" /\ who' = c
    /\ superseded' = FALSE
    /\ ret' = FALSE
    /\ UNCHANGED <<config, queue, handle, enq, live_val, no_set_since,
                   poolVars, pipeVars, concVars, leafVars, appVars>>

\* caller c calls set_config with the tree it holds
SetConfig(c) ==
    /\ handle[c] # 0
    /\ Len(queue) < MaxQueue
    /\ Install(set_config(CompState, c))
    /\ op' = "set_config" /\ who' = c /\ raised' = FALSE
    /\ superseded' = FALSE
    /\ enq' = Append(enq, heap[handle[c]])
    /\ no_set_since' = FALSE
    /\ ret' = FALSE
    /\ UNCHANGED <<live_val, poolVars, pipeVars, concVars, leafVars, appVars>>

\* caller c: set_config(get_config()), then the component's update_config
RoundTrip(c) ==
    /\ Len(queue) < MaxQueue
    /\ LET st1 == get_config(CompState, c)
           st2 == set_config(st1, c)
           r == update_config(st2)
       IN  Install(r.st) /\ ret' = r.result
    /\ op' = "round_trip" /\ who' = c /\ raised' = FALSE
    /\ superseded' = FALSE
    /\ enq' = <<>>
    /\ live_val' = heap'[config']
    /\ no_set_since' = TRUE
    /\ UNCHANGED <<poolVars, pipeVars, concVars, leafVars, appVars>>

(***************************************************************************)
(* ConfigMixin with threads. A thread switch can happen between any two    *)
(* bytecodes, so update_config is three steps per iteration: the test of   *)
(* the while statement, the call of popleft(), and the store to            *)
(* self.config. deque.append and deque.popleft are single steps. A         *)
(* snapshot is named by its arrival number: the n-th set_config call       *)
(* appends snapshot n.                                                     *)
(***************************************************************************)
Component == "component"
\* the external callers: a ConfigDialog of the editor and a script
ConcCallers == {"dialog", "script"}
ConcThreads == {Component} \cup ConcCallers

\* set_config in thread c: self._configmixin_queue.append(copy.deepcopy(config))
ConcSetConfig(c) ==
    /\ cpc[c] = "idle"
    /\ nsets < MaxSets
    /\ nsets' = nsets + 1
    /\ cqueue' = Append(cqueue, nsets + 1)
    /\ UNCHANGED <<cconfig, cpc, citem, index_errors, cresult, seen, reads,
                   poolVars, pipeVars, mixinVars, leafVars, appVars>>

\* the component, a YUVtoRGB, begins transform, which begins with
\* self.update_config(): result = False
CallUpdateConfig ==
    /\ cpc[Component] = "idle"
    /\ cpc' = [cpc EXCEPT ![Component] = "test"]
    /\ cresult' = FALSE
    /\ reads' = <<>>
    /\ UNCHANGED <<cqueue, cconfig, citem, nsets, index_errors, seen,
                   poolVars, pipeVars, mixinVars, leafVars, appVars>>

\* caller c calls get_config, which begins with self.update_config()
CallGetConfig(c) ==
    /\ cpc[c] = "idle"
    /\ cpc' = [cpc EXCEPT ![c] = "test"]
    /\ UNCHANGED <<cqueue, cconfig, citem, nsets, index_errors, cresult, seen, reads,
                   poolVars, pipeVars, mixinVars, leafVars, appVars>>

\* while self._configmixin_queue: when it is empty update_config returns,
\* into the component's transform or into get_config
QueueTest(t) ==
    /\ cpc[t] = "test"
    /\ cpc' = [cpc EXCEPT ![t] = IF cqueue # <<>> THEN "pop"
                                 ELSE IF t = Component THEN "audit" ELSE "copy"]
    /\ seen' = IF t = Component /\ cqueue = <<>> THEN cconfig ELSE seen
    /\ UNCHANGED <<cqueue, cconfig, citem, nsets, index_errors, cresult, reads,
                   poolVars, pipeVars, mixinVars, leafVars, appVars>>

\* self._configmixin_queue.popleft(): IndexError on an empty deque, which
\* ends the call of update_config (and of get_config)
PopLeft(t) ==
    /\ cpc[t] = "pop"
    /\ IF cqueue = <<>>
       THEN /\ index_errors' = index_errors + 1
            /\ cpc' = [cpc EXCEPT ![t] = "idle"]
            /\ UNCHANGED <<cqueue, citem>>
       ELSE /\ citem' = [citem EXCEPT ![t] = Head(cqueue)]
            /\ cqueue' = Tail(cqueue)
            /\ cpc' = [cpc EXCEPT ![t] = "assign"]
            /\ UNCHANGED index_errors
    /\ UNCHANGED <<cconfig, nsets, cresult, seen, reads,
                   poolVars, pipeVars, mixinVars, leafVars, appVars>>

\* self.config = <what popleft() returned>; result = True
Assign(t) ==
    /\ cpc[t] = "assign"
    /\ cconfig' = citem[t]
    /\ citem' = [citem EXCEPT ![t] = 0]
    /\ cpc' = [cpc EXCEPT ![t] = "test"]
    /\ cresult' = IF t = Component THEN TRUE ELSE cresult
    /\ UNCHANGED <<cqueue, nsets, index_errors, seen, reads,
                   poolVars, pipeVars, mixinVars, leafVars, appVars>>

\* get_config: return copy.deepcopy(self.config)
CopyConfig(c) ==
    /\ cpc[c] = "copy"
    /\ cpc' = [cpc EXCEPT ![c] = "idle"]
    /\ UNCHANGED <<cqueue, cconfig, citem, nsets, index_errors, cresult, seen, reads,
                   poolVars, pipeVars, mixinVars, leafVars, appVars>>

\* YUVtoRGB.transform, after update_config, reads self.config three times:
\* self.config['range'] for the audit text, self.config['matrix'] to choose
\* the matrix, and self.config['range'] again to apply offset or scale
ReadConfig ==
    /\ cpc[Component] \in {"audit", "matrix", "apply"}
    /\ reads' = Append(reads, cconfig)
    /\ cpc' = [cpc EXCEPT ![Component] = IF @ = "audit" THEN "matrix"
                                         ELSE IF @ = "matrix" THEN "apply"
                                         ELSE "idle"]
    /\ UNCHANGED <<cqueue, cconfig, citem, nsets, index_errors, cresult, seen,
                   poolVars, pipeVars, mixinVars, leafVars, appVars>>

\* a thread goes on with the call it is in
Continue(t) ==
    \/ QueueTest(t) \/ PopLeft(t) \/ Assign(t) \/ CopyConfig(t)
    \/ (t = Component /\ ReadConfig)

(***************************************************************************)
(* One leaf node, constructed and then used through set, validate and clip *)
(***************************************************************************)
\* the integers tried as values, and (as floats) for Float nodes
SampleInts == {0, 1, 5, 10, 11}
\* min_value and max_value of a numeric node: absent, 1 or 10
SampleBounds == {None, Some(1), Some(10)}
SampleStrs == {"off", "on", "maybe"}

\* value= of a numeric constructor: absent, or one of the integers
NumericArgs == {None} \cup {Some(n) : n \in SampleInts}

\* the values a caller passes to set and validate
LeafValues ==
    {IntVal(n) : n \in SampleInts} \cup {FloatVal(n) : n \in SampleInts}
    \cup {StrVal(x) : x \in SampleStrs}

\* the choices of a ConfigEnum are strings, and so is what is offered to an
\* extendable one
Offered(n, val) == (n.type = "enum" /\ n.extendable) => val.t = "str"

\* str(value), as a sequence of characters (a word stands for itself)
DigitChars == <<"0", "1", "2", "3", "4", "5", "6", "7", "8", "9">>
RECURSIVE Decimal(_)
Decimal(n) ==
    IF n < 10 THEN <<DigitChars[n + 1]>>
    ELSE Decimal(n \div 10) \o <<DigitChars[(n % 10) + 1]>>
str(val) ==
    IF val.t = "int" THEN Decimal(val.v)
    ELSE IF val.t = "float" THEN Decimal(val.v) \o <<".", "0">>
    ELSE IF val.t = "str" THEN <<val.v>>
    ELSE <<"None">>

\* raise ValueError(str(value))
ErrorNamesCurrent(n, val) == str(LeafGet(n))
ErrorText(n, val) == str(val)

\* node.set(val)
SetLeaf(val) ==
    /\ Offered(leaf, val)
    /\ LET r == LeafSet(leaf, val)
       IN  /\ leaf' = r.node
           /\ lraised' = r.raised
           /\ lerr' = IF r.raised THEN ErrorText(leaf, val) ELSE <<>>
    /\ lop' = "set" /\ larg' = val
    /\ lvalid' = FALSE /\ lclipped' = 0
    /\ UNCHANGED <<poolVars, pipeVars, mixinVars, concVars, appVars>>

\* node.validate(val)
ValidateLeaf(val) ==
    /\ Offered(leaf, val)
    /\ LET r == validate(leaf, val)
       IN  leaf' = r.node /\ lvalid' = r.ok
    /\ lop' = "validate" /\ larg' = val
    /\ lraised' = FALSE /\ lerr' = <<>> /\ lclipped' = 0
    /\ UNCHANGED <<poolVars, pipeVars, mixinVars, concVars, appVars>>

\* node.clip(val), for a numeric node and a value of its type
ClipLeaf(val) ==
    /\ leaf.type \in {"int", "float"}
    /\ val.t = leaf.type
    /\ lclipped' = clip(leaf, val.v)
    /\ lop' = "clip" /\ larg' = val
    /\ lraised' = FALSE /\ lerr' = <<>> /\ lvalid' = FALSE
    /\ UNCHANGED <<leaf, poolVars, pipeVars, mixinVars, concVars, appVars>>

(***************************************************************************)
(* One config tree in the hands of one caller: a ConfigParent of leaves    *)
(* (the config of a component) or a ConfigGrandParent of ConfigParents (the *)
(* config of a compound component).                                        *)
(***************************************************************************)
\* ConfigParent(): the children are kept in self.value, a dict; the
\* constructor passes that dict as value=, and ConfigLeafNode.__init__
\* stores it as self.value and as self.default, which are one object
ConfigParent(children) == [type |-> "parent", value |-> children]

\* node.default
Default(node) == IF node.type = "parent" THEN node.value ELSE node.default

\* a dict passed as a value: its items, in iteration order
DictVal(items) == [t |-> "dict", v |-> items]

\* node.set(value), for a leaf and for a parent. ConfigParent.set:
\*     if not self.validate(value): raise ValueError(str(value))
\*     for k, v in value.items(): self.value[k].set(v)
\* SetItems is the loop: a key that names no child raises KeyError, and a
\* child that rejects its value raises ValueError; either ends the loop
RECURSIVE NodeSet(_, _), SetItems(_, _)
SetItems(children, items) ==
    IF items = <<>> THEN [raised |-> FALSE, tree |-> children]
    ELSE LET k == Head(items)[1]
             v == Head(items)[2]
         IN  IF k \notin DOMAIN children
             THEN [raised |-> TRUE, tree |-> children]
             ELSE LET r == NodeSet(children[k], v)
                      t2 == [children EXCEPT ![k] = r.node]
                  IN  IF r.raised THEN [raised |-> TRUE, tree |-> t2]
                      ELSE SetItems(t2, Tail(items))
NodeSet(node, val) ==
    IF node.type # "parent" THEN LeafSet(node, val)
    ELSE IF val.t # "dict" THEN [raised |-> TRUE, node |-> node]
    ELSE LET r == SetItems(node.value, val.v)
         IN  [raised |-> r.raised, node |-> [node EXCEPT !.value = r.tree]]

\* the config of a compound component with one child, a QtDisplay named
\* "disp": a ConfigGrandParent whose child is the QtDisplay's ConfigParent
CompoundTree == [n \in {"disp"} |-> ConfigParent(InitialTree)]

\* the config of a component with a Float and a Str node, the Str one given
\* a value at construction
FilterTree ==
    [k \in {"gain", "label"} |->
        IF k = "gain" THEN ConfigFloat(Some(1), None, None)
        ELSE ConfigStr(Some("off"))]

\* the config of a component with a Str node that was given no value
TitleTree == [k \in {"title"} |-> ConfigStr(None)]

FlatTrees == {InitialTree, ReaderTree, FilterTree, TitleTree}
LeafKeys == UNION {DOMAIN tree : tree \in FlatTrees}

\* the tree is that of a compound
Nested(children) == \E k \in DOMAIN children : children[k].type = "parent"

\* what a caller may try to store in a node of a tree
TreeValues == Values \cup {FloatVal(n) : n \in 1 .. MaxInt}

\* the keys of the leaves of a component's tree, or of the trees of a
\* compound's children
LeafKeysOf(children) ==
    IF Nested(children) THEN UNION {DOMAIN children[n].value : n \in DOMAIN children}
    ELSE DOMAIN children

\* the values a caller may put in a mapping
BulkValues ==
    {IntVal(0), IntVal(MaxInt), FloatVal(MaxInt), StrVal("on"), StrVal("maybe")}

\* the mappings a caller may pass to ConfigParent.set: one or two items,
\* their keys those of the tree's leaves or one that names no child
Pairs(keys) == (keys \cup {"nokey"}) \X BulkValues
Mappings(keys) ==
    {<<p>> : p \in Pairs(keys)}
    \cup {<<m[1], m[2]>> : m \in {x \in Pairs(keys) \X Pairs(keys) : x[1][1] # x[2][1]}}

\* the value of every leaf, by key
RECURSIVE ValuesOf(_)
ValuesOf(children) ==
    [k \in DOMAIN children |->
        IF children[k].type = "parent"
        THEN DictVal(ValuesOf(children[k].value))
        ELSE LeafGet(children[k])]

\* config.set(mapping) on the root of a component's tree, and
\* config.set({name: mapping}) on the root of a compound's
BulkSet(items) ==
    /\ LET r == SetItems(cnf, items)
       IN  /\ cnf' = r.tree
           /\ traised' = r.raised
    /\ top' = "set" /\ targ' = items
    /\ UNCHANGED <<klass, saved, loaded, poolVars, pipeVars, cfgVars, compVars, sceneVars>>

\* the user changes one leaf: the editor's widgets call node.set(value) on
\* the node they show, and a script does config[key] = value
TreeEdit(name, key, val) ==
    /\ IF name = "" THEN ~Nested(cnf) /\ key \in DOMAIN cnf
       ELSE name \in DOMAIN cnf /\ cnf[name].type = "parent"
            /\ key \in DOMAIN cnf[name].value
    /\ LET r == IF name = "" THEN SetItems(cnf, <<<<key, val>>>>)
                ELSE SetItems(cnf, <<<<name, DictVal(<<<<key, val>>>>)>>>>)
       IN  /\ cnf' = r.tree
           /\ traised' = r.raised
    /\ top' = "edit" /\ targ' = <<name, key, val>>
    /\ UNCHANGED <<klass, saved, loaded, poolVars, pipeVars, cfgVars, compVars, sceneVars>>

\* dict.items(): the items of a dict, in its iteration order
RECURSIVE ItemsOf(_)
ItemsOf(d) ==
    IF DOMAIN d = {} THEN <<>>
    ELSE LET k == CHOOSE j \in DOMAIN d : TRUE
         IN  <<<<k, d[k]>>>> \o ItemsOf([j \in DOMAIN d \ {k} |-> d[j]])

\* repr(value) of a leaf's value: the text of a Python literal (a word
\* stands for itself, between quotes)
repr(val) == IF val.t = "str" THEN <<"'", val.v, "'">> ELSE str(val)

\* the number a run of decimal digits denotes
RECURSIVE Number(_)
Number(digits) ==
    IF digits = <<>> THEN 0
    ELSE 10 * Number(SubSeq(digits, 1, Len(digits) - 1))
         + (CHOOSE d \in 0 .. 9 : DigitChars[d + 1] = digits[Len(digits)])

\* eval(text) of such a literal
eval(text) ==
    IF text = <<"None">> THEN NoneVal
    ELSE IF text[1] = "'" THEN StrVal(text[2])
    ELSE IF \E i \in 1 .. Len(text) : text[i] = "."
    THEN LET i == CHOOSE j \in 1 .. Len(text) : text[j] = "."
         IN  FloatVal(Number(SubSeq(text, 1, i - 1)))
    ELSE IntVal(Number(text))

\* ConfigParent.__repr__: a dict display of the children whose value is not
\* their default,
\*     for key, value in self.value.items():
\*         if value.value != value.default: result[key] = value
\* each shown by its own __repr__
RECURSIVE ParentRepr(_)
ParentRepr(children) ==
    [k \in {j \in DOMAIN children : children[j].value # Default(children[j])} |->
        IF children[k].type = "parent"
        THEN [t |-> "dict", v |-> ParentRepr(children[k].value)]
        ELSE [t |-> "text", v |-> repr(LeafGet(children[k]))]]

\* eval(comp['config']).items()
RECURSIVE EvalItems(_)
EvalItems(display) ==
    ItemsOf([k \in DOMAIN display |->
                IF display[k].t = "dict" THEN DictVal(EvalItems(display[k].v))
                ELSE eval(display[k].v)])

\* save_script writes repr(child.obj.get_config()) as the component's
\* 'config'; the saved script's Network.make builds the component anew and
\* does, on its get_config(),
\*     for key, value in eval(component['config']).items(): cnf[key] = value
SaveLoad ==
    /\ saved' = ParentRepr(cnf)
    /\ LET r == SetItems(klass, EvalItems(saved'))
       IN  /\ loaded' = r.tree
           /\ traised' = r.raised
    /\ top' = "save_load" /\ targ' = <<>>
    /\ UNCHANGED <<cnf, klass, poolVars, pipeVars, cfgVars, compVars, sceneVars>>

\* ConfigParent.parser_add: every leaf adds the argument '--' + key, the
\* key prefixed by the names of its parents and a '.', with
\* default=self.value; the result is what parse_args gives when the command
\* line has no options: every argument's default, by its name
RECURSIVE ParserAdd(_, _)
ParserAdd(items, prefix) ==
    IF items = <<>> THEN <<>>
    ELSE LET k == Head(items)[1]
             n == Head(items)[2]
         IN  (IF n.type = "parent"
              THEN ParserAdd(ItemsOf(n.value), prefix \o <<k, ".">>)
              ELSE <<<<prefix \o <<k>>, LeafGet(n)>>>>)
             \o ParserAdd(Tail(items), prefix)

\* key.split('.')
RECURSIVE Split(_)
Split(key) ==
    IF key = <<>> THEN <<>>
    ELSE IF Head(key) = "." THEN Split(Tail(key))
    ELSE <<Head(key)>> \o Split(Tail(key))

\* while len(parts) > 1: value = {parts[-1] : value}; del parts[-1]
RECURSIVE Wrap(_, _)
Wrap(parts, value) ==
    IF Len(parts) > 1
    THEN Wrap(SubSeq(parts, 1, Len(parts) - 1),
              DictVal(<<<<parts[Len(parts)], value>>>>))
    ELSE value

\* ConfigParent.parser_set(args)
RECURSIVE ParserSet(_, _)
ParserSet(children, args) ==
    IF args = <<>> THEN [raised |-> FALSE, tree |-> children]
    ELSE LET parts == Split(Head(args)[1])
             r == SetItems(children, <<<<parts[1], Wrap(parts, Head(args)[2])>>>>)
         IN  IF r.raised THEN r ELSE ParserSet(r.tree, Tail(args))

\* the main sequence of a saved script, run with no options on the command
\* line: cnf = comp.get_config(); cnf.parser_add(parser);
\* args = parser.parse_args(); cnf.parser_set(args); comp.set_config(cnf)
ParserRoundTrip ==
    /\ targ' = ParserAdd(ItemsOf(cnf), <<>>)
    /\ LET r == ParserSet(cnf, targ')
       IN  /\ cnf' = r.tree
           /\ traised' = r.raised
    /\ top' = "parse"
    /\ UNCHANGED <<klass, saved, loaded, poolVars, pipeVars, cfgVars, compVars, sceneVars>>

(***************************************************************************)
(* Components at work: the lifecycle of a QtDisplay in the editor and of a *)
(* YUVtoRGB in a script, YUVtoRGB.process_frame, and the transform methods *)
(* of QtDisplay, YUVtoRGB and Matrix.                                      *)
(***************************************************************************)
\* Component.stop(), as the component runtime specifies it: a request. A
\* component that was never started has nothing to shut down and is
\* stopped; a running one is asked to stop, and shuts itself down in its
\* own context; a further request changes nothing
BaseStop(state) ==
    IF state = "Created" THEN "Stopped"
    ELSE IF state = "Running" THEN "Stopping"
    ELSE state

\* Component.start()
BaseStart(state) == IF state = "Created" THEN "Running" ELSE state

\* a QtDisplay just constructed; initialise constructs its SimpleDisplay
NewQtDisplay ==
    [q |-> "Created", d |-> "Created", shutdowns |-> 0, calls |-> 0]

\* SimpleDisplay.closeEvent: self.stop()
closeEvent(inst) == [inst EXCEPT !.d = BaseStop(@), !.calls = @ + 1]

\* SimpleDisplay.onStop: the timer and the swapper thread are stopped and
\* the window is closed; close() delivers closeEvent before it returns
onStop(inst) == closeEvent([inst EXCEPT !.shutdowns = @ + 1])

\* QtDisplay.start: super().start(); self.display.start()
QtStart(inst) == [inst EXCEPT !.q = BaseStart(@), !.d = BaseStart(@)]

\* QtDisplay.stop: super().stop(); self.display.stop()
QtStopShutsDown(inst) ==
    onStop([inst EXCEPT !.q = BaseStop(@), !.calls = @ + 1])
QtStop(inst) ==
    [inst EXCEPT !.q = BaseStop(@), !.d = BaseStop(@), !.calls = @ + 1]

\* NetworkArea.run_graph: every component is stopped and replaced by a new
\* instance (renew), and the new instances are started
RunGraph ==
    /\ gen < MaxRuns
    /\ gen' = gen + 1
    /\ insts' = [insts EXCEPT ![gen] = QtStop(@), ![gen + 1] = QtStart(@)]
    /\ UNCHANGED <<ylife, stepVars, transVars, treeVars, sceneVars,
                   poolVars, pipeVars, cfgVars>>

\* NetworkArea.stop_graph: child.obj.stop() for every component
StopGraph ==
    /\ insts[gen].calls < MaxStops
    /\ insts' = [insts EXCEPT ![gen] = QtStop(@)]
    /\ UNCHANGED <<gen, ylife, stepVars, transVars, treeVars, sceneVars,
                   poolVars, pipeVars, cfgVars>>

\* the user closes the window of a running display: closeEvent
CloseWindow(i) ==
    /\ insts[i].d = "Running"
    /\ insts' = [insts EXCEPT ![i] = closeEvent(@)]
    /\ UNCHANGED <<gen, ylife, stepVars, transVars, treeVars, sceneVars,
                   poolVars, pipeVars, cfgVars>>

\* a SimpleDisplay that was asked to stop leaves its event loop: onStop
\* runs, and the display is stopped
DisplayExit(i) ==
    /\ insts[i].d = "Stopping"
    /\ insts' = [insts EXCEPT ![i] = [onStop(@) EXCEPT !.d = "Stopped"]]
    /\ UNCHANGED <<gen, ylife, stepVars, transVars, treeVars, sceneVars,
                   poolVars, pipeVars, cfgVars>>

\* a QtDisplay that was asked to stop leaves its loop
QtExit(i) ==
    /\ insts[i].q = "Stopping"
    /\ insts' = [insts EXCEPT ![i].q = "Stopped"]
    /\ UNCHANGED <<gen, ylife, stepVars, transVars, treeVars, sceneVars,
                   poolVars, pipeVars, cfgVars>>

\* a script's main sequence: comp.start() ... comp.stop()
ScriptStart ==
    /\ ylife = "Created"
    /\ ylife' = BaseStart(ylife)
    /\ UNCHANGED <<insts, gen, stepVars, transVars, treeVars, sceneVars,
                   poolVars, pipeVars, cfgVars>>

ScriptStop ==
    /\ ylife' = BaseStop(ylife)
    /\ UNCHANGED <<insts, gen, stepVars, transVars, treeVars, sceneVars,
                   poolVars, pipeVars, cfgVars>>

YuvExit ==
    /\ ylife = "Stopping"
    /\ ypc = "idle"
    /\ ylife' = "Stopped"
    /\ UNCHANGED <<insts, gen, stepVars, transVars, treeVars, sceneVars,
                   poolVars, pipeVars, cfgVars>>

\* the component counts frames arrive with
CompCounts == {1, 2, 3, 4}
FrameTypes == {"RGB", "Y", "YUV"}

\* YUVtoRGB.transform: False unless Y has one component and UV two;
\* otherwise out_frame.data is assigned and the result is True
YuvTransform(Y, UV) ==
    IF Y # 1 THEN [result |-> "False", data |-> FALSE]
    ELSE IF UV # 2 THEN [result |-> "False", data |-> FALSE]
    ELSE [result |-> "True", data |-> TRUE]

\* Matrix.transform: False if the input's component count is not the
\* matrix's column count; matrix_coefs exists only once a matrix arrived
MatrixTransformOf(coefs, count) ==
    IF coefs = None THEN [result |-> "raise", data |-> FALSE]
    ELSE IF count # coefs[1] THEN [result |-> "False", data |-> FALSE]
    ELSE [result |-> "True", data |-> TRUE]

\* QtDisplay.transform: bpc == 3, bpc == 1, or else return False
DisplayableAny(bpc) == TRUE
Displayable(bpc) == bpc = 3 \/ bpc = 1

\* a frame: its number of arrival at its input and its component count
NoFrame == [k |-> 0, count |-> 0]

\* a frame arrives at input_Y or input_UV and waits in its input buffer
InputY(count) ==
    /\ arrived.Y < MaxInputs
    /\ arrived' = [arrived EXCEPT !.Y = @ + 1]
    /\ buf_Y' = Append(buf_Y, [k |-> arrived.Y + 1, count |-> count])
    /\ UNCHANGED <<buf_UV, steps, ypc, y_in, acquired, outputs, stops, yresult,
                   lifeVars, transVars, treeVars, sceneVars, poolVars, pipeVars, cfgVars>>

InputUV(count) ==
    /\ arrived.UV < MaxInputs
    /\ arrived' = [arrived EXCEPT !.UV = @ + 1]
    /\ buf_UV' = Append(buf_UV, [k |-> arrived.UV + 1, count |-> count])
    /\ UNCHANGED <<buf_Y, steps, ypc, y_in, acquired, outputs, stops, yresult,
                   lifeVars, transVars, treeVars, sceneVars, poolVars, pipeVars, cfgVars>>

\* Y_frame = self.input_buffer['input_Y'].get()
\* UV_frame = self.input_buffer['input_UV'].get()
TakeInputsKeepsUV(bY, bUV) ==
    [Y |-> Head(bY), UV |-> Head(bUV), restY |-> Tail(bY), restUV |-> bUV]
TakeInputs(bY, bUV) ==
    [Y |-> Head(bY), UV |-> Head(bUV), restY |-> Tail(bY), restUV |-> Tail(bUV)]

\* YUVtoRGB.process_frame begins, as it does when every input has a frame
\* waiting: the input frames are taken, and
\* out_frame = self.outframe_pool['output'].get()
StepBegin ==
    /\ ylife = "Running"
    /\ ypc = "idle"
    /\ buf_Y # <<>> /\ buf_UV # <<>>
    /\ ypc' = "transform"
    /\ y_in' = [Y |-> TakeInputs(buf_Y, buf_UV).Y,
                UV |-> TakeInputs(buf_Y, buf_UV).UV]
    /\ buf_Y' = TakeInputs(buf_Y, buf_UV).restY
    /\ buf_UV' = TakeInputs(buf_Y, buf_UV).restUV
    /\ steps' = steps + 1
    /\ arrived' = arrived
    /\ acquired' = 1
    /\ outputs' = <<>> /\ stops' = 0 /\ yresult' = "none"
    /\ UNCHANGED <<lifeVars, transVars, treeVars, sceneVars, poolVars, pipeVars, cfgVars>>

\* self.transform(Y_frame, UV_frame, out_frame)
StepTransform ==
    /\ ypc = "transform"
    /\ yresult' = YuvTransform(y_in.Y.count, y_in.UV.count).result
    /\ ypc' = "output"
    /\ UNCHANGED <<inVars, y_in, acquired, outputs, stops, lifeVars, transVars,
                   treeVars, sceneVars, poolVars, pipeVars, cfgVars>>

\* what the output port is invoked with:
\*     if self.transform(...): self.output(out_frame)
\*     else: self.output(None)
EmittedFrameAlways(result) == "frame"
Emitted(result) == IF result = "True" THEN "frame" ELSE "None"

StepOutput ==
    /\ ypc = "output"
    /\ outputs' = Append(outputs, Emitted(yresult))
    /\ ypc' = IF yresult = "True" THEN "done" ELSE "stop"
    /\ UNCHANGED <<inVars, y_in, acquired, stops, yresult, lifeVars, transVars,
                   treeVars, sceneVars, poolVars, pipeVars, cfgVars>>

\* self.stop(), after self.output(None)
StepStop ==
    /\ ypc = "stop"
    /\ ylife' = BaseStop(ylife)
    /\ stops' = stops + 1
    /\ ypc' = "done"
    /\ UNCHANGED <<insts, gen, inVars, y_in, acquired, outputs, yresult,
                   transVars, treeVars, sceneVars, poolVars, pipeVars, cfgVars>>

\* process_frame returns
StepReturn ==
    /\ ypc = "done"
    /\ ypc' = "idle"
    /\ UNCHANGED <<inVars, y_in, acquired, outputs, stops, yresult, lifeVars,
                   transVars, treeVars, sceneVars, poolVars, pipeVars, cfgVars>>

\* YUVtoRGB.transform(Y_frame, UV_frame, out_frame), out_frame fresh from
\* the pool
YuvTransformCall(Y, UV) ==
    /\ tkind' = "YUVtoRGB" /\ tin' = [Y |-> Y, UV |-> UV]
    /\ LET r == YuvTransform(Y, UV)
       IN  /\ tresult' = r.result
           /\ out_data' = r.data
    /\ UNCHANGED <<last_frame_type, shown, matrix_coefs, lifeVars, stepVars,
                   treeVars, sceneVars, poolVars, pipeVars, cfgVars>>

\* QtDisplay.transform(in_frame, out_frame)
QtTransform(bpc, type) ==
    /\ shown < MaxShown
    /\ tkind' = "QtDisplay" /\ tin' = [bpc |-> bpc, type |-> type]
    /\ IF Displayable(bpc)
       THEN /\ last_frame_type' = type
            /\ shown' = shown + 1
            /\ tresult' = "True"
       ELSE /\ tresult' = "False"
            /\ UNCHANGED <<last_frame_type, shown>>
    /\ UNCHANGED <<out_data, matrix_coefs, lifeVars, stepVars, treeVars, sceneVars,
                   poolVars, pipeVars, cfgVars>>

\* Matrix.matrix(new_matrix), a two dimensional array with cols columns
MatrixInput(cols) ==
    /\ matrix_coefs' = Some(cols)
    /\ tkind' = "Matrix.matrix" /\ tin' = [cols |-> cols]
    /\ UNCHANGED <<tresult, out_data, last_frame_type, shown,
                   lifeVars, stepVars, treeVars, sceneVars, poolVars, pipeVars, cfgVars>>

\* Matrix.transform(in_frame, out_frame), out_frame fresh from the pool
MatrixTransform(count) ==
    /\ tkind' = "Matrix" /\ tin' = [comps |-> count]
    /\ LET r == MatrixTransformOf(matrix_coefs, count)
       IN  /\ tresult' = r.result
           /\ out_data' = r.data
    /\ UNCHANGED <<last_frame_type, shown, matrix_coefs, lifeVars, stepVars,
                   treeVars, sceneVars, poolVars, pipeVars, cfgVars>>

(***************************************************************************)
(* The editor's scene (NetworkArea): component icons and the links between *)
(* them. A ComponentLink holds its source and dest icons themselves.       *)
(***************************************************************************)
Icons == 1 .. MaxIcons
\* the names a user may give to components
Names == {"a", "b", "c"}
Outboxes == {"output"}
Inboxes == {"input"}

\* the icons that exist: those in the scene, and those a link refers to
Referenced == comps \cup {l.source : l \in links} \cup {l.dest : l \in links}

\* the identity of a newly constructed icon
NewIcon == CHOOSE i \in Icons \ Referenced : \A j \in Icons \ Referenced : i <= j

\* what the user may type into the name dialog
Texts == Names \cup {""}

\* NetworkArea.name_in_use(name)
name_never_in_use(names, name) == FALSE
name_in_use(names, name) == \E c \in DOMAIN names : names[c] = name

\* get_unique_name, by the user's last answer to the dialog (it is shown
\* again while the name entered is in use): the text entered, or '' if the
\* dialog was cancelled
Answered(names, text, ok) == ok => ~name_in_use(names, text)
get_unique_name(text, ok) == IF ok THEN text ELSE ""

\* delete_child: link.source == child or link.dest == child
TouchesSource(l, child) == l.source = child
Touches(l, child) == l.source = child \/ l.dest = child

\* NetworkArea.delete_child(child) for a component icon: the links that
\* touch it are removed, then the icon
delete_child(sc, child) ==
    [comps |-> sc.comps \ {child},
     cname |-> [c \in DOMAIN sc.cname \ {child} |-> sc.cname[c]],
     links |-> {l \in sc.links : ~Touches(l, child)}]

Scene == [comps |-> comps, cname |-> cname, links |-> links]

SetScene(sc) ==
    /\ comps' = sc.comps
    /\ cname' = sc.cname
    /\ links' = sc.links
    /\ removed' = links \ sc.links
    /\ UNCHANGED <<graphVars, drawVars>>

\* the handler did nothing: the dialog was cancelled, or left empty
Cancelled ==
    /\ SetScene(Scene)
    /\ sop' = "cancel" /\ sarg' = 0

\* add_component: name = self.get_unique_name(name), and if name: a new
\* icon under that name
AddComponent(text, ok) ==
    /\ Icons \ Referenced # {}
    /\ Answered(cname, text, ok)
    /\ LET name == get_unique_name(text, ok)
       IN  IF name # ""
           THEN /\ SetScene([Scene EXCEPT !.comps = @ \cup {NewIcon},
                                          !.cname = (NewIcon :> name) @@ @])
                /\ sop' = "add" /\ sarg' = NewIcon
           ELSE Cancelled
    /\ UNCHANGED <<treeVars, compVars, poolVars, pipeVars, cfgVars>>

\* rename_component: the component's own name is set aside (component.name
\* = None) while get_unique_name runs, and if name: component.rename(name)
RenameComponent(c, text, ok) ==
    /\ c \in comps
    /\ Answered([d \in comps \ {c} |-> cname[d]], text, ok)
    /\ LET name == get_unique_name(text, ok)
       IN  IF name # ""
           THEN /\ SetScene([Scene EXCEPT !.cname[c] = name])
                /\ sop' = IF name = cname[c] THEN "rename, same name"
                          ELSE "rename"
                /\ sarg' = c
           ELSE Cancelled
    /\ UNCHANGED <<treeVars, compVars, poolVars, pipeVars, cfgVars>>

\* IOIcon.dropEvent: an output of one icon in the scene is dragged to an
\* input of another (or the other way round); the links from that output
\* are removed, and the new link is added
DropLink(source, outbox, dest, inbox) ==
    /\ source \in comps /\ dest \in comps
    /\ SetScene([Scene EXCEPT !.links =
           {l \in @ : ~(l.source = source /\ l.outbox = outbox)}
           \cup {[source |-> source, outbox |-> outbox,
                  dest |-> dest, inbox |-> inbox]}])
    /\ sop' = "link" /\ sarg' = source
    /\ UNCHANGED <<treeVars, compVars, poolVars, pipeVars, cfgVars>>

\* the component's context menu: delete_self, which is delete_child
DeleteChild(c) ==
    /\ c \in comps
    /\ SetScene(delete_child(Scene, c))
    /\ sop' = "delete" /\ sarg' = c
    /\ UNCHANGED <<treeVars, compVars, poolVars, pipeVars, cfgVars>>

\* keyPressEvent, the Delete key: delete_child for every selected item,
\* here at most one component and one link; for a link delete_child is
\* removeItem alone
RECURSIVE DeleteAll(_, _)
DeleteAll(sc, cs) ==
    IF cs = {} THEN sc
    ELSE LET c == CHOOSE x \in cs : TRUE
         IN  DeleteAll(delete_child(sc, c), cs \ {c})

KeyPressDelete(cs, ls) ==
    /\ cs \subseteq comps /\ ls \subseteq links
    /\ Cardinality(cs) <= 1 /\ Cardinality(ls) <= 1
    /\ cs # {} \/ ls # {}
    /\ LET sc1 == DeleteAll(Scene, cs)
       IN  SetScene([sc1 EXCEPT !.links = @ \ ls])
    /\ sop' = IF cs = {} THEN "delete link" ELSE "delete"
    /\ sarg' = IF cs = {} THEN 0 ELSE CHOOSE c \in cs : TRUE
    /\ UNCHANGED <<treeVars, compVars, poolVars, pipeVars, cfgVars>>

\* the networks a script saved by the editor may describe: components by
\* name, and linkages from (name, outbox) to (name, inbox) between them
Linkages(names) ==
    UNION {[from -> (names \X Inboxes)] : from \in SUBSET (names \X Outboxes)}
Networks ==
    UNION {{[components |-> names, linkages |-> lk] : lk \in Linkages(names)} :
              names \in SUBSET Names}

\* load_script: every item is removed; a new icon is made for every
\* component of the network, and a link for every linkage
RECURSIVE LoadComponents(_, _)
LoadComponents(names, built) ==
    IF names = {} THEN built
    ELSE LET n == CHOOSE x \in names : TRUE
             i == CHOOSE j \in Icons \ DOMAIN built :
                      \A k \in Icons \ DOMAIN built : j <= k
         IN  LoadComponents(names \ {n}, (i :> n) @@ built)

LoadScript(net) ==
    /\ Cardinality(net.components) <= MaxIcons
    /\ LET built == LoadComponents(net.components, <<>>)
           icon(n) == CHOOSE i \in DOMAIN built : built[i] = n
       IN  SetScene([comps |-> DOMAIN built,
                     cname |-> built,
                     links |-> {[source |-> icon(k[1]), outbox |-> k[2],
                                 dest |-> icon(net.linkages[k][1]),
                                 inbox |-> net.linkages[k][2]] :
                                   k \in DOMAIN net.linkages}])
    /\ sop' = "load" /\ sarg' = 0
    /\ UNCHANGED <<treeVars, compVars, poolVars, pipeVars, cfgVars>>

(***************************************************************************)
(* The editor's graph at run time: a network of two components, the        *)
(* component objects behind their icons, the bindings between the objects, *)
(* and run_graph. The handlers run on the GUI thread, one at a time.       *)
(***************************************************************************)
\* the component icons of the network; all are enabled
GraphIcons == {1, 2}
ConfigValues == {"default", "edited"}

\* self.klass(): a new component object, made during the r-th run_graph
\* (0: when the icon was made)
NewObj(r) ==
    [born |-> r, state |-> "Created", live |-> "default", pending |-> <<>>]

\* obj.get_config(): the queued changes are adopted and a copy of the tree
\* is returned
ObjGetConfig(o) ==
    IF o.pending = <<>> THEN o.live ELSE o.pending[Len(o.pending)]

\* obj.set_config(config): the tree is queued for the component
ObjSetConfig(o, tree) == [o EXCEPT !.pending = Append(@, tree)]

\* BasicComponentIcon.renew:
\*     config = self.obj.get_config()
\*     self.obj = self.klass()
\*     self.obj.set_config(config)
renewKeepsObj(o, r) == o
renew(o, r) == ObjSetConfig(NewObj(r), ObjGetConfig(o))

\* the component object of icon c, by identity
Inst(objs, c) == <<c, objs[c].born>>

\* BasicComponentIcon.connect: self.obj.bind(outbox, dest.obj, inbox), for
\* link l and the objs the icons have now
BindingOf(objs, l) ==
    [source |-> Inst(objs, l.source), outbox |-> l.outbox,
     dest |-> Inst(objs, l.dest), inbox |-> l.inbox]

\* the bindings that are left on the objs of the icons: a component object
\* no icon refers to any more is gone, and the bindings made on it with it
OnObjs(objs, bs) ==
    {b \in bs : \E c \in DOMAIN objs : b.source = Inst(objs, c)}

GraphEdit(name) ==
    /\ rg_pc = "idle"
    /\ edits < MaxEdits
    /\ edits' = edits + 1
    /\ g_op' = name
    /\ UNCHANGED <<rg_pc, rg_icons, rg_links, runs>>

NotScene ==
    UNCHANGED <<comps, cname, links, sop, sarg, removed, treeVars, compVars,
                poolVars, pipeVars, cfgVars, drawVars>>

\* IOIcon.dropEvent: the links from that output are removed from the scene
\* and a new ComponentLink is added, whose __init__ calls renew, which
\* binds the objs of the two icons
GraphDropLink(source, outbox, dest, inbox) ==
    /\ source \in gicons /\ dest \in gicons
    /\ GraphEdit("link")
    /\ LET l == [source |-> source, outbox |-> outbox,
                 dest |-> dest, inbox |-> inbox]
       IN  /\ glinks' = {k \in glinks :
                            ~(k.source = source /\ k.outbox = outbox)} \cup {l}
           /\ bindings' = bindings \cup {BindingOf(icon_obj, l)}
    /\ UNCHANGED <<gicons, icon_obj>>
    /\ NotScene

\* delete_child(link): the link is removed from the scene
GraphDeleteLink(l) ==
    /\ l \in glinks
    /\ GraphEdit("delete link")
    /\ glinks' = glinks \ {l}
    /\ UNCHANGED <<gicons, icon_obj, bindings>>
    /\ NotScene

\* delete_child(component): the links that touch it are removed from the
\* scene, then the icon
GraphDeleteChild(c) ==
    /\ c \in gicons
    /\ GraphEdit("delete")
    /\ glinks' = {l \in glinks : ~Touches(l, c)}
    /\ gicons' = gicons \ {c}
    /\ icon_obj' = [d \in gicons \ {c} |-> icon_obj[d]]
    /\ bindings' = OnObjs(icon_obj', bindings)
    /\ NotScene

\* ConfigDialog.apply_changes: self.component.obj.set_config(self.config)
GraphSetConfig(c, value) ==
    /\ c \in gicons
    /\ Len(icon_obj[c].pending) < MaxQueue
    /\ GraphEdit("config")
    /\ icon_obj' = [icon_obj EXCEPT ![c] = ObjSetConfig(@, value)]
    /\ UNCHANGED <<gicons, glinks, bindings>>
    /\ NotScene

\* run_graph is called
RunGraphCall ==
    /\ rg_pc = "idle"
    /\ runs < MaxRuns
    /\ runs' = runs + 1
    /\ rg_pc' = "renew"
    /\ rg_icons' = {} /\ rg_links' = {}
    /\ g_op' = "run_graph called"
    /\ UNCHANGED <<gicons, glinks, icon_obj, bindings, edits>>
    /\ NotScene

\* run_graph, first loop: child.obj.stop(); child.renew()
RunGraphRenew(c) ==
    /\ rg_pc = "renew"
    /\ c \in gicons \ rg_icons
    /\ rg_icons' = rg_icons \cup {c}
    /\ icon_obj' = [icon_obj EXCEPT
                       ![c] = renew([@ EXCEPT !.state = BaseStop(@)], runs)]
    /\ bindings' = OnObjs(icon_obj', bindings)
    /\ g_op' = "renew"
    /\ UNCHANGED <<gicons, glinks, rg_pc, rg_links, runs, edits>>
    /\ NotScene

\* run_graph, second loop: child.renew() for a ComponentLink
RunGraphBind(l) ==
    /\ rg_pc = "bind"
    /\ l \in glinks \ rg_links
    /\ rg_links' = rg_links \cup {l}
    /\ bindings' = bindings \cup {BindingOf(icon_obj, l)}
    /\ g_op' = "bind"
    /\ UNCHANGED <<gicons, glinks, icon_obj, rg_pc, rg_icons, runs, edits>>
    /\ NotScene

\* run_graph, third loop: child.obj.start()
RunGraphStart(c) ==
    /\ rg_pc = "start"
    /\ c \in gicons \ rg_icons
    /\ rg_icons' = rg_icons \cup {c}
    /\ icon_obj' = [icon_obj EXCEPT ![c].state = BaseStart(@)]
    /\ g_op' = "start"
    /\ UNCHANGED <<gicons, glinks, bindings, rg_pc, rg_links, runs, edits>>
    /\ NotScene

\* a loop of run_graph has visited every item: the next loop begins, or
\* run_graph returns
RunGraphLoopEnd ==
    /\ \/ /\ rg_pc = "renew" /\ rg_icons = gicons
          /\ rg_pc' = "bind" /\ g_op' = "renewed"
       \/ /\ rg_pc = "bind" /\ rg_links = glinks
          /\ rg_pc' = "start" /\ g_op' = "bound"
       \/ /\ rg_pc = "start" /\ rg_icons = gicons
          /\ rg_pc' = "idle" /\ g_op' = "run_graph"
    /\ rg_icons' = {} /\ rg_links' = {}
    /\ UNCHANGED <<gicons, glinks, icon_obj, bindings, runs, edits>>
    /\ NotScene

\* stop_graph: child.obj.stop() for every enabled component
GraphStop ==
    /\ rg_pc = "idle"
    /\ \E c \in gicons : icon_obj[c].state = "Running"
    /\ icon_obj' = [c \in gicons |-> [icon_obj[c] EXCEPT !.state = BaseStop(@)]]
    /\ g_op' = "stop_graph"
    /\ UNCHANGED <<gicons, glinks, bindings, rg_pc, rg_icons, rg_links, runs,
                   edits>>
    /\ NotScene

(***************************************************************************)
(* CompoundIcon.draw_icon (editor.py): the children of an expanded         *)
(* compound component are placed according to its linkages                 *)
(***************************************************************************)
\* self.obj._compound_children: the names of the children. "a" is a Busbar
\* with two outputs, "b" has two inputs (as YUVtoRGB has), "c" has one of
\* each; a box is named by its place in the component's inputs or outputs
CompoundChildren == {"a", "b", "c"}
Busbars == {"a"}
OutboxesOf == [a |-> 0 .. 1, b |-> {0}, c |-> {0}]
InboxesOf == [a |-> {0}, b |-> 0 .. 1, c |-> {0}]
\* the ends of a linkage: a box of a child, or a box of the compound itself
Sources ==
    {<<"self", 0>>} \cup
    UNION {{<<c, i>> : i \in OutboxesOf[c]} : c \in CompoundChildren}
Targets ==
    {<<"self", 0>>} \cup
    UNION {{<<c, i>> : i \in InboxesOf[c]} : c \in CompoundChildren}
LinkageItem ==
    {[src |-> s[1], outbox |-> s[2], dest |-> d[1], inbox |-> d[2]] :
        s \in Sources, d \in Targets}
\* the items of a dict from (src, outbox) to (dest, inbox), in the order
\* the dict yields them
LinkageItems ==
    UNION {{ls \in [1 .. n -> LinkageItem] :
               \A i \in 1 .. n, j \in 1 .. n :
                   i # j => <<ls[i].src, ls[i].outbox>> #
                            <<ls[j].src, ls[j].outbox>>} : n \in 0 .. MaxLinks}

\* pos[name] = [50, 50] for every child
StartPos == [name \in CompoundChildren |-> <<50, 50>>]

\* x = pos[src][0] + 150, less 50 if the source is a Busbar
XStepNone(src) == 0
XStep(src) == IF src \in Busbars THEN 150 - 50 ELSE 150

\* the body of the for loop, for one linkage: st is [pos, no_move]
Place(st, l) ==
    IF l.src = "self" \/ l.dest = "self" THEN st
    ELSE LET x == st.pos[l.src][1] + XStep(l.src)
             y == st.pos[l.src][2] - (150 * (l.inbox - l.outbox))
             movex == st.pos[l.dest][1] < x
             movey == st.pos[l.dest][2] < y
         IN  [pos |-> [st.pos EXCEPT ![l.dest] =
                          <<IF movex THEN x ELSE @[1],
                            IF movey THEN y ELSE @[2]>>],
              no_move |-> st.no_move /\ ~movex /\ ~movey]

\* one pass of the while loop: no_move = True, then the for loop over the
\* linkages
RECURSIVE PlaceAll(_, _)
PlaceAll(st, ls) ==
    IF ls = <<>> THEN st ELSE PlaceAll(Place(st, Head(ls)), Tail(ls))
Pass(p, ls) == PlaceAll([pos |-> p, no_move |-> TRUE], ls)

\* x_min, y_min, x_max, y_max over pos
Least(p, k) ==
    CHOOSE v \in {p[i][k] : i \in DOMAIN p} : \A i \in DOMAIN p : v <= p[i][k]
Most(p, k) ==
    CHOOSE v \in {p[i][k] : i \in DOMAIN p} : \A i \in DOMAIN p : v >= p[i][k]
\* pos[i] = 50 + pos[i] - min, for both coordinates
Normalised(p) ==
    [i \in DOMAIN p |-> <<(50 + p[i][1]) - Least(p, 1),
                          (50 + p[i][2]) - Least(p, 2)>>]
ExpandedSize(p) ==
    <<(Most(p, 1) - Least(p, 1)) + 200, (Most(p, 2) - Least(p, 2)) + 230>>
\* the compound has one input and one output
ContractedSize == <<100, 100 + (20 * Max(2, Max(1, 1)))>>

NotDraw ==
    UNCHANGED <<comps, cname, links, sop, sarg, removed, graphVars, treeVars,
                compVars, poolVars, pipeVars, cfgVars>>

\* expand_contract, to the contracted view: draw_icon sets the size and
\* places nothing
Contract ==
    /\ draw_pc \in {"idle", "drawn"}
    /\ expanded
    /\ expanded' = FALSE
    /\ icon_size' = ContractedSize
    /\ draw_pc' = "idle"
    /\ UNCHANGED <<compound_linkages, pos>>
    /\ NotDraw

\* expand_contract, to the expanded view: draw_icon gives every child the
\* same start position and enters the while loop
Expand ==
    /\ draw_pc \in {"idle", "drawn"}
    /\ ~expanded
    /\ expanded' = TRUE
    /\ pos' = StartPos
    /\ draw_pc' = "loop"
    /\ UNCHANGED <<compound_linkages, icon_size>>
    /\ NotDraw

\* the positions the model follows
Followed(p) == \A i \in DOMAIN p : p[i][1] <= MaxPos /\ p[i][2] <= MaxPos

\* a pass of the while loop that moved a child: the loop goes round again
DrawPassMoves ==
    /\ draw_pc = "loop"
    /\ Followed(pos)
    /\ ~Pass(pos, compound_linkages).no_move
    /\ pos' = Pass(pos, compound_linkages).pos
    /\ UNCHANGED <<expanded, compound_linkages, draw_pc, icon_size>>
    /\ NotDraw

\* a pass that moved nothing: break, and the rest of draw_icon: the
\* positions are shifted so that the least is 50, and the icon is sized
DrawPassSettles ==
    /\ draw_pc = "loop"
    /\ Pass(pos, compound_linkages).no_move
    /\ pos' = Normalised(pos)
    /\ icon_size' = ExpandedSize(pos)
    /\ draw_pc' = "drawn"
    /\ UNCHANGED <<expanded, compound_linkages>>
    /\ NotDraw

(***************************************************************************)
(* Specifications                                                          *)
(***************************************************************************)
\* a contracted CompoundIcon of a compound component with the linkages ls
DrawStart(ls) ==
    /\ expanded = FALSE
    /\ compound_linkages = ls
    /\ pos = StartPos
    /\ draw_pc = "idle"
    /\ icon_size = ContractedSize

\* ConfigMixin.__init__, with the component's nodes added
CfgStart(tree) ==
    /\ heap = (1 :> tree)
    /\ config = 1
    /\ queue = <<>>
    /\ handle = [c \in Callers |-> 0]
    /\ op = "init" /\ who = "component" /\ ret = FALSE /\ raised = FALSE
    /\ enq = <<>>
    /\ live_val = tree
    /\ superseded = FALSE
    /\ no_set_since = FALSE

CfgIdle == CfgStart(InitialTree)

\* a leaf node n as its constructor leaves it; arg is the value= it was
\* given
LeafBuilt(n, arg) ==
    /\ leaf = n
    /\ lop = "init" /\ larg = arg
    /\ lraised = FALSE /\ lerr = <<>>
    /\ lvalid = FALSE /\ lclipped = 0

LeafStart(n) == LeafBuilt(n, NoneVal)

LeafIdle == LeafStart(ConfigInt(None, None, None))

TreeStart(tree) ==
    /\ cnf = tree /\ klass = tree
    /\ top = "init" /\ targ = <<>> /\ traised = FALSE
    /\ saved = <<>> /\ loaded = <<>>

TreeIdle == TreeStart(InitialTree)

CompIdle ==
    /\ insts = [i \in 0 .. MaxRuns |-> NewQtDisplay]
    /\ gen = 0 /\ ylife = "Created"
    /\ ypc = "idle" /\ y_in = [Y |-> NoFrame, UV |-> NoFrame]
    /\ buf_Y = <<>> /\ buf_UV = <<>>
    /\ arrived = [Y |-> 0, UV |-> 0] /\ steps = 0
    /\ acquired = 0 /\ outputs = <<>> /\ stops = 0 /\ yresult = "none"
    /\ tkind = "none" /\ tin = <<>> /\ tresult = "none" /\ out_data = FALSE
    /\ last_frame_type = "None" /\ shown = 0 /\ matrix_coefs = None

\* NetworkArea.__init__: an empty scene
SceneEmpty ==
    /\ comps = {} /\ cname = <<>> /\ links = {}
    /\ sop = "init" /\ sarg = 0 /\ removed = {}

\* the graph of a scene with the component icons cs, not yet linked
GraphStart(cs) ==
    /\ gicons = cs /\ glinks = {}
    /\ icon_obj = [c \in cs |-> NewObj(0)]
    /\ bindings = {}
    /\ rg_pc = "idle" /\ rg_icons = {} /\ rg_links = {}
    /\ runs = 0 /\ edits = 0 /\ g_op = "init"

SceneIdle == SceneEmpty /\ GraphStart({}) /\ DrawStart(<<>>)

ConcIdle ==
    /\ cqueue = <<>>
    /\ cconfig = 0
    /\ cpc = [t \in ConcThreads |-> "idle"]
    /\ citem = [t \in ConcThreads |-> 0]
    /\ nsets = 0
    /\ index_errors = 0
    /\ cresult = FALSE /\ seen = 0 /\ reads = <<>>

PipeIdle ==
    /\ avail = <<>> /\ disp_msgs = <<>> /\ in_queue = <<>>
    /\ swapping = FALSE /\ timer_active = FALSE
    /\ swaps_pending = 0 /\ sent = 0 /\ pop_errors = 0
    /\ received = <<>> /\ displayed = <<>>
    /\ clock_started = FALSE

\* ObjectPool(factory, n, callback), about to run __init__; r is what the
\* callback can do with its argument
PoolStart(n, r) ==
    /\ size = n
    /\ retains = r
    /\ obj_list = <<>>
    /\ held = {}
    /\ made = 0 /\ factory_calls = 0 /\ init_calls = 0
    /\ called = <<>> /\ replaced = 0
    /\ stack = [t \in Threads |-> IF t = Owner THEN <<InitFrame>> ELSE <<>>]
    /\ released = 0 /\ surfaced = 0 /\ ignored = 0
    /\ init_state = "running"

PoolInit(n) == PoolStart(n, BOOLEAN)

Init ==
    /\ \E n \in 1 .. MaxSize : PoolInit(n)
    /\ PipeIdle
    /\ CfgIdle
    /\ ConcIdle
    /\ TreeIdle
    /\ CompIdle
    /\ SceneIdle
    /\ LeafIdle

Next ==
    \/ \E t \in Threads : InitLoop(t)
    \/ \E t \in Threads : Remove(t)
    \/ \E t \in Threads : FactoryReturns(t)
    \/ \E t \in Threads : FactoryRaises(t)
    \/ \E t \in Threads : AppendRef(t)
    \/ \E t \in Threads : Callback(t)
    \/ \E t \in Threads : Return(t)
    \/ \E t \in Threads, o \in held : Drop(t, o)

Spec == Init /\ [][Next]_vars

PipeInit ==
    /\ PoolStart(PipeSize, {TRUE})
    /\ PipeIdle
    /\ CfgIdle
    /\ ConcIdle
    /\ TreeIdle
    /\ CompIdle
    /\ SceneIdle
    /\ LeafIdle

PipeNext ==
    \/ \E t \in Threads : InitLoop(t)
    \/ \E t \in Threads : Remove(t)
    \/ \E t \in Threads : FactoryReturns(t)
    \/ \E t \in Threads : FactoryRaises(t)
    \/ \E t \in Threads : AppendRef(t)
    \/ \E t \in Threads : CallbackToProducer(t)
    \/ \E t \in Threads : Return(t)
    \/ ProcessFrame
    \/ ShowFrame
    \/ TimerTimeout
    \/ DoneSwap

SpecPipe == PipeInit /\ [][PipeNext]_vars

\* the display's thread goes on executing the handler it is in (the release
\* notification of the frame it dropped included), every started timer
\* fires and every requested buffer swap reports done_swap
SpecPipeFair ==
    /\ SpecPipe
    /\ WF_vars(Remove(Consumer))
    /\ WF_vars(FactoryReturns(Consumer) \/ FactoryRaises(Consumer))
    /\ WF_vars(AppendRef(Consumer))
    /\ WF_vars(CallbackToProducer(Consumer))
    /\ WF_vars(Return(Consumer))
    /\ WF_vars(TimerTimeout)
    /\ WF_vars(DoneSwap)

\* the construction of a pool, with a callback that keeps every object,
\* one that keeps none, or one that keeps some; nobody else drops an object
\* meanwhile
ConstructInit ==
    /\ \E n \in 1 .. MaxSize, r \in {{TRUE}, {FALSE}, BOOLEAN} : PoolStart(n, r)
    /\ PipeIdle
    /\ CfgIdle
    /\ ConcIdle
    /\ TreeIdle
    /\ CompIdle
    /\ SceneIdle
    /\ LeafIdle

ConstructNext ==
    \/ InitLoop(Owner)
    \/ Remove(Owner)
    \/ FactoryReturns(Owner)
    \/ FactoryRaises(Owner)
    \/ AppendRef(Owner)
    \/ Callback(Owner)
    \/ Return(Owner)

SpecConstruct == ConstructInit /\ [][ConstructNext]_vars


CfgInit ==
    /\ PoolInit(1)
    /\ PipeIdle
    /\ \E tree \in ComponentTrees : CfgStart(tree)
    /\ ConcIdle
    /\ TreeIdle
    /\ CompIdle
    /\ SceneIdle
    /\ LeafIdle

CfgNext ==
    \/ UpdateConfig
    \/ \E c \in Callers : GetConfig(c)
    \/ \E c \in Callers, key \in AllKeys, val \in Values : Edit(c, key, val)
    \/ \E c \in Callers : SetConfig(c)
    \/ \E c \in Callers : RoundTrip(c)

SpecConfig == CfgInit /\ [][CfgNext]_vars

ConcInit ==
    /\ PoolInit(1)
    /\ PipeIdle
    /\ CfgIdle
    /\ ConcIdle
    /\ TreeIdle
    /\ CompIdle
    /\ SceneIdle
    /\ LeafIdle

ConcNext ==
    \/ \E c \in ConcCallers : ConcSetConfig(c)
    \/ CallUpdateConfig
    \/ \E c \in ConcCallers : CallGetConfig(c)
    \/ \E t \in ConcThreads : QueueTest(t)
    \/ \E t \in ConcThreads : PopLeft(t)
    \/ \E t \in ConcThreads : Assign(t)
    \/ \E c \in ConcCallers : CopyConfig(c)
    \/ ReadConfig

SpecConc == ConcInit /\ [][ConcNext]_vars

LeafInit ==
    /\ PoolInit(1)
    /\ PipeIdle
    /\ CfgIdle
    /\ ConcIdle
    /\ TreeIdle
    /\ CompIdle
    /\ SceneIdle
    /\ \/ \E v \in NumericArgs, lo \in SampleBounds, hi \in SampleBounds :
              LeafBuilt(ConfigInt(v, lo, hi),
                        IF v = None THEN NoneVal ELSE IntVal(v[1]))
       \/ \E v \in NumericArgs, lo \in SampleBounds, hi \in SampleBounds :
              LeafBuilt(ConfigFloat(v, lo, hi),
                        IF v = None THEN NoneVal ELSE FloatVal(v[1]))
       \/ \E v \in {None, Some("off")} : LeafStart(ConfigStr(v))
       \/ LeafStart(ConfigPath(None))
       \/ \E x \in BOOLEAN : LeafStart(ConfigEnum(<<"off", "on">>, x))

LeafNext ==
    \/ \E val \in LeafValues : SetLeaf(val)
    \/ \E val \in LeafValues : ValidateLeaf(val)
    \/ \E val \in LeafValues : ClipLeaf(val)

SpecLeaf == LeafInit /\ [][LeafNext]_vars

TreeInit ==
    /\ PoolInit(1)
    /\ PipeIdle
    /\ CfgIdle
    /\ ConcIdle
    /\ LeafIdle
    /\ \E tree \in FlatTrees \cup {CompoundTree} : TreeStart(tree)
    /\ CompIdle
    /\ SceneIdle

TreeNext ==
    \/ \E items \in Mappings(LeafKeysOf(cnf)) : ~Nested(cnf) /\ BulkSet(items)
    \/ \E name \in DOMAIN CompoundTree, items \in Mappings(LeafKeysOf(cnf)) :
           Nested(cnf) /\ BulkSet(<<<<name, DictVal(items)>>>>)
    \/ \E name \in {""} \cup DOMAIN CompoundTree, key \in LeafKeys,
          val \in TreeValues : TreeEdit(name, key, val)
    \/ SaveLoad
    \/ ParserRoundTrip

SpecTree == TreeInit /\ [][TreeNext]_vars

CompInit ==
    /\ PoolInit(1)
    /\ PipeIdle
    /\ CfgIdle
    /\ ConcIdle
    /\ LeafIdle
    /\ TreeIdle
    /\ CompIdle
    /\ SceneIdle

\* YUVtoRGB.process_frame, once begun, goes on
StepContinue == StepTransform \/ StepOutput \/ StepStop \/ StepReturn

CompNext ==
    \/ RunGraph
    \/ StopGraph
    \/ \E i \in 0 .. MaxRuns : CloseWindow(i)
    \/ \E i \in 0 .. MaxRuns : DisplayExit(i)
    \/ \E i \in 0 .. MaxRuns : QtExit(i)

SpecComp == CompInit /\ [][CompNext]_vars

StepNext ==
    \/ ScriptStart
    \/ ScriptStop
    \/ \E count \in CompCounts : InputY(count)
    \/ \E count \in CompCounts : InputUV(count)
    \/ StepBegin
    \/ StepTransform
    \/ StepOutput
    \/ StepStop
    \/ StepReturn
    \/ YuvExit

SpecStep == CompInit /\ [][StepNext]_vars

TransNext ==
    \/ \E Y \in CompCounts, UV \in CompCounts : YuvTransformCall(Y, UV)
    \/ \E bpc \in CompCounts, type \in FrameTypes : QtTransform(bpc, type)
    \/ \E cols \in CompCounts : MatrixInput(cols)
    \/ \E count \in CompCounts : MatrixTransform(count)

SpecTrans == CompInit /\ [][TransNext]_vars

\* every component runs in a thread of its own (the displays in the Qt
\* event loop): a call that began goes on, and a component that was asked
\* to stop leaves its loop
SpecCompFair ==
    /\ SpecComp
    /\ \A i \in 0 .. MaxRuns : WF_vars(DisplayExit(i)) /\ WF_vars(QtExit(i))

SpecStepFair == SpecStep /\ WF_vars(StepContinue) /\ WF_vars(YuvExit)

SceneInit ==
    /\ PoolInit(1)
    /\ PipeIdle
    /\ CfgIdle
    /\ ConcIdle
    /\ LeafIdle
    /\ TreeIdle
    /\ CompIdle
    /\ SceneIdle

SceneNext ==
    \/ \E text \in Texts, ok \in BOOLEAN : AddComponent(text, ok)
    \/ \E c \in Icons, text \in Texts, ok \in BOOLEAN :
          RenameComponent(c, text, ok)
    \/ \E source \in Icons, dest \in Icons, outbox \in Outboxes,
          inbox \in Inboxes : DropLink(source, outbox, dest, inbox)
    \/ \E c \in Icons : DeleteChild(c)
    \/ \E cs \in SUBSET comps, ls \in SUBSET links : KeyPressDelete(cs, ls)
    \/ \E net \in Networks : LoadScript(net)

SpecScene == SceneInit /\ [][SceneNext]_vars

GraphInit ==
    /\ PoolInit(1)
    /\ PipeIdle
    /\ CfgIdle
    /\ ConcIdle
    /\ LeafIdle
    /\ TreeIdle
    /\ CompIdle
    /\ SceneEmpty
    /\ GraphStart(GraphIcons)
    /\ DrawStart(<<>>)

GraphNext ==
    \/ \E source \in GraphIcons, dest \in GraphIcons, outbox \in Outboxes,
          inbox \in Inboxes : GraphDropLink(source, outbox, dest, inbox)
    \/ \E l \in glinks : GraphDeleteLink(l)
    \/ \E c \in GraphIcons : GraphDeleteChild(c)
    \/ \E c \in GraphIcons, value \in ConfigValues : GraphSetConfig(c, value)
    \/ RunGraphCall
    \/ \E c \in GraphIcons : RunGraphRenew(c)
    \/ \E l \in glinks : RunGraphBind(l)
    \/ \E c \in GraphIcons : RunGraphStart(c)
    \/ RunGraphLoopEnd
    \/ GraphStop

SpecGraph == GraphInit /\ [][GraphNext]_vars

DrawInit ==
    /\ PoolInit(1)
    /\ PipeIdle
    /\ CfgIdle
    /\ ConcIdle
    /\ LeafIdle
    /\ TreeIdle
    /\ CompIdle
    /\ SceneEmpty
    /\ GraphStart({})
    /\ \E ls \in LinkageItems : DrawStart(ls)

DrawNext ==
    \/ Expand
    \/ Contract
    \/ DrawPassMoves
    \/ DrawPassSettles

SpecDraw == DrawInit /\ [][DrawNext]_vars

\* draw_icon runs in the Qt thread, which goes on running it until it
\* returns
SpecDrawFair ==
    SpecDraw /\ WF_vars(DrawPassMoves) /\ WF_vars(DrawPassSettles)

\* every thread that is in a call goes on with it, and the component calls
\* update_config again and again
SpecConcFair ==
    /\ SpecConc
    /\ \A t \in ConcThreads : WF_vars(Continue(t))
    /\ WF_vars(CallUpdateConfig)

(***************************************************************************)
(* Properties of ObjectPool                                                *)
(***************************************************************************)
NoDuplicates(s) == \A j, k \in 1 .. Len(s) : j # k => s[j] # s[k]

\* no thread is inside a release notification
QuietPool ==
    \A t \in Threads : \A k \in 1 .. Len(stack[t]) : stack[t][k].fn # "release"

\* objects the factory returned to a _new_object that has not yet called
\* the callback
AwaitingCallback ==
    UNION {{stack[t][k].obj : k \in {j \in 1 .. Len(stack[t]) :
                                      stack[t][j].pc \in {"append", "callback"}}}
           : t \in Threads}

\* C1: in every reachable state, the states inside _release included, the
\* number of live (strongly referenced, not yet released) pool objects is
\* at most the pool's capacity.
C1_LiveAtMostSize == Cardinality(Live) <= size

\* C1 witness: a thread is inside _release, after removing the dead
\* reference and before creating the replacement, in a pool that was full.
C1_Witness ==
    /\ init_state = "done"
    /\ \E t \in Threads : Running(t, {"release"}, "factory")
    /\ Cardinality(Live) = size - 1
    /\ size > 1

C3_CallbackOncePerObject ==
    /\ init_state = "done" => init_calls = size
    /\ init_calls <= size
    /\ NoDuplicates(called)
    /\ Elems(called) \cup AwaitingCallback = 1 .. made
    /\ Elems(called) \cap AwaitingCallback = {}
    /\ \A o \in Elems(called) : o \in Live => o \in Elems(obj_list)

\* C3 witness: construction is complete, releases have happened, and every
\* object made has been given to the callback.
C3_Witness ==
    /\ init_state = "done"
    /\ \A t \in Threads : stack[t] = <<>>
    /\ released >= 2
    /\ Len(called) = made
    /\ made = size + released

\* C4: every exception the factory raised has reached the pool's owner.
C4_FactoryFailureSurfaced == factory_calls - made = surfaced

\* C5: in the pipeline at most PipeSize frames are acquired and not yet
\* released; the producer has acquired k frames only after k - PipeSize of
\* them were released.
C5_AtMostPipeSizeInFlight ==
    /\ Cardinality(InFlight) <= PipeSize
    /\ sent - released <= PipeSize

\* C5 witness: all frames were sent, with the pool exhausted at the end:
\* PipeSize frames are still held by the display.
C5_Witness ==
    /\ sent = NumFrames
    /\ Cardinality(InFlight) = PipeSize
    /\ in_queue # <<>>
    /\ released = NumFrames - PipeSize

(***************************************************************************)
(* Properties of ConfigMixin                                               *)
(***************************************************************************)
LiveTree == heap[config]
LiveTreeNext == heap'[config']
Last(s) == s[Len(s)]

\* C6: set_config only appends a copy of the caller's tree to the queue:
\* the live tree is what the last drain left, and every waiting snapshot is
\* still the caller's tree as it was when set_config was called, whatever
\* the caller did to its tree afterwards.
C6_SetConfigOnlyEnqueues ==
    /\ LiveTree = live_val
    /\ Len(queue) = Len(enq)
    /\ \A k \in 1 .. Len(queue) : heap[queue[k]] = enq[k]

\* C6 witness: after set_config returned, the caller changed its tree, which
\* now differs from the snapshot waiting in the queue and from the live tree.
C6_Witness ==
    /\ op = "edit" /\ ~raised
    /\ queue # <<>>
    /\ heap[handle[who]] # heap[Last(queue)]
    /\ heap[Last(queue)] # LiveTree

\* C7: get_config returns a new tree equal to the live tree, and a set on
\* a caller's tree changes neither the live tree nor a waiting snapshot.
C7_GetConfigCopyIsIndependent ==
    [][/\ op' = "get_config" =>
              /\ handle'[who'] \notin {config'} \cup Elems(queue')
              /\ heap'[handle'[who']] = LiveTreeNext
       /\ op' = "edit" =>
              /\ config' = config /\ queue' = queue
              /\ LiveTreeNext = LiveTree
              /\ \A k \in 1 .. Len(queue) : heap'[queue[k]] = heap[queue[k]]]_vars

\* C7 witness: a set on the copy succeeded, and the copy now differs from
\* the live tree it was copied from.
C7_Witness ==
    /\ op = "edit" /\ ~raised
    /\ queue = <<>>
    /\ heap[handle[who]] # LiveTree

\* C8: update_config empties the queue, makes the snapshot enqueued last
\* the live tree (as it was at its set_config), and returns whether the
\* queue was non-empty.
C8_UpdateAdoptsLast ==
    [][op' = "update_config" =>
           /\ queue' = <<>>
           /\ ret' = (queue # <<>>)
           /\ LiveTreeNext = IF enq = <<>> THEN LiveTree ELSE Last(enq)]_vars

\* C8 witness: update_config found two different snapshots A, B queued and
\* returned true.
C8_Witness ==
    /\ op = "update_config"
    /\ ret
    /\ superseded

\* C9: an update_config that follows another with no set_config in between
\* returns false and leaves the live tree unchanged.
C9_SecondUpdateIsNoUpdate ==
    [][(op' = "update_config" /\ no_set_since) =>
           /\ ret' = FALSE
           /\ config' = config
           /\ LiveTreeNext = LiveTree]_vars

\* C9 witness: a second update_config in a row, the first having adopted a
\* snapshot that differs from the initial tree.
C9_Witness ==
    /\ op = "update_config"
    /\ ~ret
    /\ LiveTree # InitialTree
    /\ handle["dialog"] # 0

\* C10: set_config(get_config()) followed by update_config leaves the live
\* tree equal to what it was before.
C10_RoundTripKeepsLiveTree ==
    [][op' = "round_trip" => LiveTreeNext = LiveTree]_vars

\* C13: the live tree changes only by becoming one whole snapshot, equal to
\* what the caller's tree was at its set_config call, and every snapshot
\* adopted has all its leaves satisfying their validation predicates.
C13_WholeValidSnapshots ==
    [][/\ LiveTreeNext # LiveTree => LiveTreeNext \in Elems(enq)
       /\ (queue # <<>> /\ queue' = <<>>) => AllValid(LiveTreeNext)]_vars

(***************************************************************************)
(* Properties of ConfigMixin with threads                                  *)
(***************************************************************************)
\* some thread is inside update_config
Draining == \E t \in ConcThreads : cpc[t] \in {"test", "pop", "assign"}

\* C11: under every interleaving of set_config calls with drains of the
\* queue (the component's update_config and the one get_config performs in
\* the caller's thread), once the queue is empty and every drain has
\* finished the live tree is the snapshot that was enqueued last.
C11_LastEnqueuedWins ==
    (cqueue = <<>> /\ ~Draining) => cconfig = nsets

\* C12: only the component's own thread removes a snapshot from the queue
\* or replaces the live tree; no step of a caller's set_config or
\* get_config does.
C12_OnlyComponentDrains ==
    [][(Len(cqueue') < Len(cqueue) \/ cconfig' # cconfig)
           => cpc'[Component] # cpc[Component]]_vars

\* C14: if the component calls update_config again and again, every
\* snapshot passed to set_config takes effect: the component comes to run
\* with that snapshot, or with one enqueued later, as its live tree.
C14_EverySnapshotTakesEffect ==
    \A n \in 1 .. MaxSets :
        (nsets >= n) ~> (cpc[Component] = "idle" /\ cconfig >= n)

(***************************************************************************)
(* Properties of leaf nodes                                                *)
(***************************************************************************)
\* C15: in every state of a leaf node, a freshly constructed one included,
\* validate(current value) holds.
C15_ValueAlwaysValid == validate(leaf, LeafGet(leaf)).ok

\* C16: set(v) with validate(v) failing raises an error that names v and
\* leaves value and default as they were; with validate(v) succeeding it
\* commits, so that get() returns v.
C16_SetRejectsOrCommits ==
    [][lop' = "set" =>
          IF validate(leaf, larg').ok
          THEN ~lraised' /\ LeafGet(leaf') = larg'
          ELSE /\ lraised' /\ lerr' = str(larg')
               /\ leaf'.value = leaf.value /\ leaf'.default = leaf.default]_vars

\* a set that was rejected, with the value named in the error
C16_Witness ==
    /\ lop = "set" /\ lraised
    /\ larg = IntVal(11) /\ lerr = <<"1", "1">>
    /\ leaf.type = "int" /\ leaf.value = 5

\* C17: for a numeric node with any bounds and a value v of its type,
\* validate(v) is true exactly when clip(v) = v, and clip changes no field
\* of the node.
C17_ValidateIsClipFixpoint ==
    [][/\ (lop' = "validate" /\ leaf.type \in {"int", "float"}
              /\ larg'.t = leaf.type)
          => (lvalid' <=> clip(leaf, larg'.v) = larg'.v)
       /\ lop' = "clip" => leaf' = leaf]_vars

\* validate refused a value that clip moves; the bounds are crossed
C17_Witness ==
    /\ lop = "validate" /\ ~lvalid
    /\ leaf.type = "float" /\ larg = FloatVal(5)
    /\ leaf.min_value = Some(10) /\ leaf.max_value = Some(1)

\* C18: an Int node with min_value = lo <= max_value = hi accepts set(v) of
\* an integer v iff lo <= v <= hi, and a rejected set leaves the node as it
\* was (set(0) and set(11) fail and set(5) succeeds with 1 and 10).
C18_IntSetWithinBounds ==
    [][(/\ lop' = "set" /\ leaf.type = "int" /\ larg'.t = "int"
        /\ leaf.min_value # None /\ leaf.max_value # None
        /\ leaf.min_value[1] <= leaf.max_value[1])
          => /\ ~lraised' <=> (leaf.min_value[1] <= larg'.v
                                  /\ larg'.v <= leaf.max_value[1])
             /\ lraised' => leaf' = leaf
             /\ ~lraised' => leaf'.value = larg'.v]_vars

\* set(11) was rejected by a node with bounds 1 and 10 and value 5
C18_Witness ==
    /\ leaf.type = "int"
    /\ leaf.min_value = Some(1) /\ leaf.max_value = Some(10)
    /\ lop = "set" /\ larg = IntVal(11) /\ lraised /\ leaf.value = 5

\* C19: a non-extendable Enum node accepts set(v) iff v is one of its
\* choices; a rejected set changes neither value nor choices, and no set or
\* validate call changes the choices.
C19_EnumSetIffChoice ==
    [][(leaf.type = "enum" /\ ~leaf.extendable)
          => /\ lop' = "set" =>
                  /\ ~lraised' <=> (larg'.t = "str"
                                       /\ larg'.v \in Elems(leaf.choices))
                  /\ lraised' => leaf'.value = leaf.value
                  /\ ~lraised' => leaf'.value = larg'.v
             /\ leaf'.choices = leaf.choices]_vars

\* set("maybe") was rejected after set("on") was accepted
C19_Witness ==
    /\ leaf.type = "enum" /\ ~leaf.extendable
    /\ lop = "set" /\ larg = StrVal("maybe") /\ lraised
    /\ leaf.value = "on" /\ leaf.choices = <<"off", "on">>

\* C20: an extendable Enum node accepts every set(v): a v not among its
\* choices is appended to them once, a v among them leaves them unchanged;
\* the choices only grow and set never makes a value occur twice.
C20_ExtendableEnumAppendsOnce ==
    [][(leaf.type = "enum" /\ leaf.extendable)
          => /\ lop' = "set" =>
                  /\ ~lraised' /\ leaf'.value = larg'.v
                  /\ leaf'.choices =
                         IF InChoices(larg', leaf.choices) THEN leaf.choices
                         ELSE Append(leaf.choices, larg'.v)
             /\ Len(leaf'.choices) >= Len(leaf.choices)
             /\ SubSeq(leaf'.choices, 1, Len(leaf.choices)) = leaf.choices
             /\ NoDuplicates(leaf.choices) => NoDuplicates(leaf'.choices)]_vars

\* "maybe" was appended, and set("maybe") was then called again
C20_Witness ==
    /\ leaf.type = "enum" /\ leaf.extendable
    /\ lop = "set" /\ larg = StrVal("maybe") /\ leaf.value = "maybe"
    /\ leaf.choices = <<"off", "on", "maybe">>

\* the mapping's items, whatever is nested in them included, are what the
\* tree holds
RECURSIVE Holds(_, _)
Holds(children, items) ==
    \A i \in 1 .. Len(items) :
        LET k == items[i][1]
            v == items[i][2]
        IN  /\ k \in DOMAIN children
            /\ IF v.t = "dict" THEN Holds(children[k].value, v.v)
               ELSE ValuesOf(children)[k] = v

\* C21: a bulk set(mapping) on a Parent or Grandparent node is all or
\* nothing: if it fails (a child rejects its value, or a key names no
\* child) no leaf differs from before the call, and if it succeeds every
\* child the mapping names holds its new value.
C21_BulkSetAtomic ==
    [][top' = "set" =>
          IF traised' THEN ValuesOf(cnf') = ValuesOf(cnf)
          ELSE Holds(cnf', targ')]_vars

\* C25: the description save_script writes reconstructs the same graph on
\* load: for every component, flat or nested, the saved config holds every
\* leaf whose value differs from its default, so that applying it to a new
\* instance gives every leaf the value the saved component had.
C25_SaveLoadRoundTrip ==
    [][top' = "save_load" =>
          ~traised' /\ ValuesOf(loaded') = ValuesOf(cnf)]_vars

\* C26: the main sequence of a saved script, run with no overrides on the
\* command line, completes without error and leaves every leaf of the tree
\* as it was.
C26_ParserRoundTripNoOp ==
    [][top' = "parse" => ~traised' /\ ValuesOf(cnf') = ValuesOf(cnf)]_vars

\* the frames taken and the outputs made at each point of process_frame
C22_Step ==
    /\ acquired <= 1 /\ Len(outputs) <= 1
    /\ ypc \in {"transform", "output"} => acquired = 1 /\ outputs = <<>>
    /\ ypc = "stop" => outputs = <<"None">> /\ stops = 0
    /\ ypc = "done" =>
          /\ acquired = 1
          /\ IF yresult = "True" THEN outputs = <<"frame">> /\ stops = 0
             ELSE outputs = <<"None">> /\ stops = 1 /\ ylife = "Stopping"

\* C22: each call of YUVtoRGB.process_frame takes one output frame from
\* its pool and invokes the output port exactly once: with the filled
\* frame when transform succeeded, or with None when it failed, after
\* which it requests its own stop; it never does both, and a call that
\* began comes to its end.
C22_OneFrameOneOutput == [] C22_Step /\ (ypc = "transform" ~> ypc = "done")

C22_Witness ==
    ypc = "done" /\ yresult = "False" /\ outputs = <<"None">> /\ stops = 1

\* the shutdown actions of every display ran at most once, and only in stop
C23_ShutdownOnce ==
    \A i \in 0 .. MaxRuns :
        /\ insts[i].shutdowns <= 1
        /\ insts[i].shutdowns = 1 => insts[i].d = "Stopped"
        /\ insts[i].d \in {"Created", "Running", "Stopping"} =>
              insts[i].shutdowns = 0

C24_FalseOnMismatch ==
    [][/\ tkind' = "QtDisplay" =>
             /\ tresult' = "False" <=> tin'.bpc \notin {1, 3}
             /\ tresult' = "False" =>
                   shown' = shown /\ last_frame_type' = last_frame_type
             /\ tresult' = "True" =>
                   shown' = shown + 1 /\ last_frame_type' = tin'.type
       /\ tkind' = "YUVtoRGB" =>
             /\ tresult' = "False" <=> (tin'.Y # 1 \/ tin'.UV # 2)
             /\ tresult' = "False" => ~out_data'
       /\ (tkind' = "Matrix" /\ matrix_coefs # None) =>
             /\ tresult' = "False" <=> tin'.comps # matrix_coefs[1]
             /\ tresult' = "False" => ~out_data']_vars

C24_Witness ==
    /\ tkind = "QtDisplay" /\ tresult = "False" /\ tin.bpc = 2
    /\ shown = 1 /\ last_frame_type = "RGB"

\* C27: within one call of YUVtoRGB.transform, under any interleaving with
\* external get_config and set_config calls, every read of the config (the
\* range for the audit text, the matrix, the range that is applied) comes
\* from the same snapshot.
C27_ReadsFromOneSnapshot ==
    \A j, k \in 1 .. Len(reads) : reads[j] = reads[k]

\* C29: whenever an enqueued snapshot has become the live tree, the
\* owner's update_config returns True for that change: a call of it that
\* returns with a live tree other than the one its previous call returned
\* with returns True, also when an external get_config ran in between.
C29_ChangeIsReported ==
    [][(cpc[Component] = "test" /\ cpc'[Component] = "audit" /\ cconfig # seen)
           => cresult]_vars

\* C30: update_config never fails under concurrency: no drain removes an
\* element from an empty queue.
C30_NoPopFromEmptyQueue == index_errors = 0

\* C28: after any sequence of add, rename, link, delete and load in the
\* editor's scene, the source and the destination component of every link
\* are in the scene; deleting a component removes every link that touches
\* it.
C28_LinksAttached ==
    /\ \A l \in links : l.source \in comps /\ l.dest \in comps
    /\ sop = "delete" =>
          /\ sarg \notin comps
          /\ \A l \in links : l.source # sarg /\ l.dest # sarg

C28_Witness ==
    /\ sop = "delete" /\ Cardinality(removed) = 2
    /\ \E l \in removed : l.dest = sarg /\ l.source # sarg
    /\ links # {}

(***************************************************************************)
(* Further properties of ObjectPool                                        *)
(***************************************************************************)
\* no ObjectPool operation is in progress: __init__ has returned and no
\* thread is inside _release or _new_object
PoolAtRest == init_state = "done" /\ \A t \in Threads : stack[t] = <<>>

\* C31: whenever no pool operation is in progress and no factory call has
\* failed, obj_list holds exactly size weak references, to distinct objects
\* that are all live, and to every live one; and whenever the callback is
\* invoked, its argument is already referenced from obj_list.
C31_ObjListIsTheLiveObjects ==
    /\ [](PoolAtRest /\ factory_calls = made =>
              /\ Len(obj_list) = size
              /\ NoDuplicates(obj_list)
              /\ Elems(obj_list) = Live)
    /\ [][called' # called =>
              called'[Len(called')] \in Elems(obj_list)]_vars

\* C31 witness: a pool of two at rest after three of its objects were
\* released and replaced, with no factory failure
C31_Witness ==
    /\ PoolAtRest /\ factory_calls = made
    /\ size = 2 /\ released = 3 /\ Len(called) = 5
    /\ obj_list \in {<<4, 5>>, <<5, 4>>, <<3, 5>>, <<5, 3>>}

C33_DisplayedInArrivalOrder ==
    /\ Len(displayed) <= Len(received)
    /\ displayed = SubSeq(received, 1, Len(displayed))
    /\ in_queue = SubSeq(received, Len(displayed) + 1, Len(received))

\* C33 witness: all frames were displayed, after two of them had been
\* waiting in in_queue together
C33_Witness ==
    /\ Len(displayed) = NumFrames /\ displayed = received
    /\ in_queue = <<>> /\ swaps_pending = 0 /\ stack[Consumer] = <<>>

\* C34: display_frame runs only with in_queue non-empty and _swapping
\* false: no popleft on an empty queue, at most one buffer swap
\* outstanding, _swapping true exactly while one is, and the timer pending
\* only with no swap outstanding and a frame queued.
C34_DisplayOnlyWhenReady ==
    /\ pop_errors = 0
    /\ swaps_pending <= 1
    /\ swapping <=> swaps_pending = 1
    /\ timer_active => (~swapping /\ in_queue # <<>>)

\* C34 witness: show_frame arrives while a swap is outstanding and a frame
\* is already queued
C34_Witness ==
    /\ swapping /\ swaps_pending = 1 /\ ~timer_active
    /\ Len(in_queue) = 2 /\ Len(displayed) >= 2

C36_OneFrameFromEachInput ==
    /\ Len(buf_Y) = arrived.Y - steps /\ Len(buf_UV) = arrived.UV - steps
    /\ \A i \in 1 .. Len(buf_Y) : buf_Y[i].k = steps + i
    /\ \A i \in 1 .. Len(buf_UV) : buf_UV[i].k = steps + i
    /\ y_in.Y.k = steps /\ y_in.UV.k = steps
    /\ ypc # "idle" => acquired = 1
    /\ ypc = "done" =>
          /\ Len(outputs) = 1
          /\ outputs[1] = "frame" <=> (y_in.Y.count = 1 /\ y_in.UV.count = 2)

\* C36 witness: the second call failed on the second Y frame and the
\* second UV frame, after the first had succeeded
C36_Witness ==
    /\ steps = 2 /\ ypc = "done" /\ yresult = "False"
    /\ y_in.Y.k = 2 /\ y_in.UV.k = 2 /\ y_in.UV.count = 3
    /\ buf_Y = <<>> /\ buf_UV = <<>>
    /\ acquired = 1 /\ outputs = <<"None">>

(***************************************************************************)
(* Properties of the editor's graph                                        *)
(***************************************************************************)
\* every link of the scene is bound on the objs the icons have now
LinksBound == \A l \in glinks : BindingOf(icon_obj, l) \in bindings

\* C37: run_graph first replaces the obj of every enabled component by a
\* new one that is given the configuration of the old, then binds every
\* link of the scene on the new objs, and only then starts them: no new
\* obj is started while a link is unbound, and when run_graph returns every
\* component runs and the bindings on the objs are exactly the links in
\* the scene, none of an earlier link that was removed from it.
C37_RunGraphRenewsBindsStarts ==
    /\ [](rg_pc \in {"bind", "start"} =>
              \A c \in gicons : icon_obj[c].born = runs)
    /\ [](rg_pc \in {"renew", "bind"} =>
              \A c \in gicons :
                  icon_obj[c].born = runs => icon_obj[c].state = "Created")
    /\ [](rg_pc = "start" => LinksBound)
    /\ [](g_op = "run_graph" =>
              /\ bindings = {BindingOf(icon_obj, l) : l \in glinks}
              /\ \A c \in gicons : icon_obj[c].state = "Running")
    /\ [][g_op' = "renew" =>
              \A c \in gicons :
                  ObjGetConfig(icon_obj'[c]) = ObjGetConfig(icon_obj[c])]_vars

\* C37 witness: run_graph has returned for the second time, after three
\* edits of the graph; one link is in the scene and bound, and a component
\* has the edited configuration of the obj it replaced
C37_Witness ==
    /\ g_op = "run_graph" /\ runs = 2
    /\ gicons = GraphIcons
    /\ Cardinality(glinks) = 1 /\ Cardinality(bindings) = 1
    /\ \E c \in gicons : ObjGetConfig(icon_obj[c]) = "edited"
    /\ edits = 3

\* C38: after any sequence of add_component, rename_component,
\* delete_child and load_script, no two components in the scene have the
\* same name and none has the empty name; a name dialog that was cancelled
\* (or left empty) changes nothing in the scene.
C38_NamesUniqueAndNotEmpty ==
    /\ [](\A c \in comps : cname[c] # "")
    /\ [](\A c \in comps, d \in comps : c # d => cname[c] # cname[d])
    /\ [][sop' = "cancel" =>
              comps' = comps /\ cname' = cname /\ links' = links]_vars

\* C38 witness: a component of a scene of three was renamed to the name it
\* had
C38_Witness ==
    /\ sop = "rename, same name" /\ sarg \in comps
    /\ Cardinality(comps) = 3

\* the linkages with neither end at the compound itself, as edges
Internal(ls) ==
    {<<ls[i].src, ls[i].dest>> :
        i \in {j \in DOMAIN ls : ls[j].src # "self" /\ ls[j].dest # "self"}}
\* the children a walk of n or fewer edges, at least one, leads to from c
RECURSIVE Reached(_, _, _)
Reached(E, c, n) ==
    IF n = 0 THEN {}
    ELSE LET next == {e[2] : e \in {f \in E : f[1] = c}}
         IN  next \cup UNION {Reached(E, d, n - 1) : d \in next}
Cyclic(ls) ==
    \E c \in CompoundChildren :
        c \in Reached(Internal(ls), c, Cardinality(CompoundChildren))
SumOf(p) ==
    LET RECURSIVE Sum(_)
        Sum(S) == IF S = {} THEN 0
                  ELSE LET i == CHOOSE j \in S : TRUE
                       IN  p[i][1] + p[i][2] + Sum(S \ {i})
    IN  Sum(DOMAIN p)

\* C39: the relaxation loop of an expanded CompoundIcon's draw_icon ends
\* if and only if the internal linkages have no cycle: without a cycle the
\* loop ends, and then every destination of an internal linkage is to the
\* right of its source; with a cycle the loop never ends and every pass
\* moves a child further right or down
C39_RelaxationEndsIffAcyclic ==
    /\ [](draw_pc = "loop" /\ ~Cyclic(compound_linkages)
              => <>(draw_pc = "drawn"))
    /\ [](draw_pc = "drawn" =>
              /\ ~Cyclic(compound_linkages)
              /\ \A e \in Internal(compound_linkages) :
                     pos[e[2]][1] > pos[e[1]][1])
    /\ [][draw_pc = "loop" /\ Cyclic(compound_linkages) =>
              draw_pc' = "loop" /\ (pos' # pos => SumOf(pos') > SumOf(pos))]_vars
    /\ [](draw_pc = "loop" /\ Cyclic(compound_linkages) /\ Followed(pos)
              => ENABLED DrawPassMoves)
C39_Witness ==
    /\ draw_pc = "drawn"
    /\ Cardinality(Internal(compound_linkages)) = 2
    /\ \E c \in CompoundChildren : pos[c][1] >= 50 + 150 + 100

\* an Int node with both bounds
IntBounded ==
    leaf.type = "int" /\ leaf.min_value # None /\ leaf.max_value # None

\* C40 as stated: clip is idempotent; with lo <= hi it returns a value in
\* [lo, hi] and leaves a value in [lo, hi] alone; with lo > hi it returns
\* lo for every value and no value validates; a ConfigInt built without a
\* value has value = default = clip(0).
C40_AsStated ==
    /\ (lop = "clip" /\ leaf.type = "int") => clip(leaf, lclipped) = lclipped
    /\ (lop = "clip" /\ IntBounded /\ leaf.min_value[1] <= leaf.max_value[1])
          => /\ leaf.min_value[1] <= lclipped /\ lclipped <= leaf.max_value[1]
             /\ (leaf.min_value[1] <= larg.v /\ larg.v <= leaf.max_value[1])
                   => lclipped = larg.v
    /\ (lop = "clip" /\ IntBounded /\ leaf.min_value[1] > leaf.max_value[1])
          => lclipped = leaf.min_value[1]
    /\ (lop = "validate" /\ IntBounded /\ larg.t = "int"
           /\ leaf.min_value[1] > leaf.max_value[1]) => ~lvalid
    /\ (lop = "init" /\ leaf.type = "int" /\ larg = NoneVal)
          => leaf.value = leaf.default /\ leaf.value = clip(leaf, 0)

\* C40 amended: clip is idempotent; with lo <= hi it returns a value in
\* [lo, hi] and leaves a value in [lo, hi] alone; with lo > hi it returns
\* lo for every value, so that lo is the only integer that validates; a
\* ConfigInt built without a value has value = default = clip(0).
C40_ClipOfInt ==
    /\ (lop = "clip" /\ leaf.type = "int") => clip(leaf, lclipped) = lclipped
    /\ (lop = "clip" /\ IntBounded /\ leaf.min_value[1] <= leaf.max_value[1])
          => /\ leaf.min_value[1] <= lclipped /\ lclipped <= leaf.max_value[1]
             /\ (leaf.min_value[1] <= larg.v /\ larg.v <= leaf.max_value[1])
                   => lclipped = larg.v
    /\ (lop = "clip" /\ IntBounded /\ leaf.min_value[1] > leaf.max_value[1])
          => lclipped = leaf.min_value[1]
    /\ (lop = "validate" /\ IntBounded /\ larg.t = "int"
           /\ leaf.min_value[1] > leaf.max_value[1])
          => (lvalid <=> larg.v = leaf.min_value[1])
    /\ (lop = "init" /\ leaf.type = "int" /\ larg = NoneVal)
          => leaf.value = leaf.default /\ leaf.value = clip(leaf, 0)

\* a node built without a value between crossed bounds holds its minimum,
\* and validate accepted that minimum
C40_Witness ==
    /\ lop = "validate" /\ larg = IntVal(10) /\ lvalid
    /\ leaf.type = "int" /\ leaf.value = 10 /\ leaf.default = 10
    /\ leaf.min_value = Some(10) /\ leaf.max_value = Some(1)

====
